---------------------------- MODULE Spec2Model ----------------------------
(***************************************************************************)
(* Telemetry post-processing pipeline of SelfGrowNetworkDefense:           *)
(*   scripts/telemetry_utils.py            load_telemetry_per_step,        *)
(*                                         _digest_buffer, load_stimuli    *)
(*   scripts/prepare_telemetry_dashboard.py  main and its helpers          *)
(*                                                                         *)
(* The numbers of the log are carried as integers in tenths (threat_score  *)
(* 1.2 is 12, a stimulus value 0.5 is 5).  Where the program computes with *)
(* floats (the run-wide aggregates, the fitness annotation) they become    *)
(* IEEE-754 doubles, and every operation rounds as Python's does.          *)
(***************************************************************************)
EXTENDS Integers, Sequences, FiniteSets, TLC

\* ------------------------------------------------------------------ bounds
\* Longest telemetry file read (number of lines).
MaxLines == 4
\* Largest step number carried by a StepSummary or a stimulus record.
MaxStep == 1
\* Longest stimulus file read (number of lines).
MaxStimLines == 1

\* ------------------------------------------------------------------ inputs
Steps == 0..MaxStep
Topics == {"alert", "heal"}
Lineages == {"X", "Y"}
\* (threat_score in tenths, cell_count) pairs carried by a StepSummary
SummaryPayloads == {<<5, 3>>, <<12, 0>>}
Timestamps == {100}
StimTopics == {"activator", "inhibitor"}
StimValues == {5}
StimDurations == {2}

\* Events are the single-key dicts of the log; kind is the key.
StepSummaryEvents ==
    {[kind |-> "StepSummary", step |-> s, threat_score |-> p[1], cell_count |-> p[2]] :
        s \in Steps, p \in SummaryPayloads}
BufferedEvents ==
    {[kind |-> "CellReplicated"], [kind |-> "CellDied"]}
      \cup {[kind |-> "SignalEmitted", topic |-> t] : t \in Topics}
      \cup {[kind |-> "LineageShift", lineage |-> l] : l \in Lineages}
Events == StepSummaryEvents \cup BufferedEvents

\* A line of the telemetry file: blank, unparsable, or a TelemetryRecord.
BlankLine == [type |-> "blank"]
CorruptLine == [type |-> "corrupt"]
RecordLines == {[type |-> "record", timestamp_ms |-> ts, event |-> e] :
                   ts \in Timestamps, e \in Events}
Lines == {BlankLine, CorruptLine} \cup RecordLines

\* A line of the stimulus file.
StimRecords(values, durations) ==
    {[type |-> "record", step |-> s, topic |-> t, value |-> v, duration |-> d] :
        s \in Steps, t \in StimTopics, v \in values, d \in durations}
StimRecordLines == StimRecords(StimValues, StimDurations)
StimLines == {BlankLine, CorruptLine} \cup StimRecordLines

\* ----------------------------------------------------------------- helpers
\* Python dicts are functions with a finite domain.
EmptyDict == [k \in {} |-> 0]
DictPut(d, k, v) == [x \in DOMAIN d \cup {k} |-> IF x = k THEN v ELSE d[x]]
DictGet(d, k, default) == IF k \in DOMAIN d THEN d[k] ELSE default
\* Counter()[k] += n
CounterAdd(c, k, n) == DictPut(c, k, DictGet(c, k, 0) + n)

\* The keys of a dict in insertion order once k has been assigned to.
KeysPut(keys, k) ==
    IF \E i \in 1..Len(keys) : keys[i] = k THEN keys ELSE Append(keys, k)

RECURSIVE SumOver(_, _)
SumOver(d, keys) ==
    IF keys = {} THEN 0
    ELSE LET k == CHOOSE x \in keys : TRUE
         IN d[k] + SumOver(d, keys \ {k})

\* _sum_values(payload)
_sum_values(payload) == SumOver(payload, DOMAIN payload)

IsSummaryLine(line) == line.type = "record" /\ line.event.kind = "StepSummary"
IsEventLine(line) == line.type = "record" /\ line.event.kind # "StepSummary"

\* ------------------------------------------------- telemetry_utils.py
\* Mutant of DigestEvent: a signal marks its topic as seen instead of counting it.
DigestEvent_TopicSeenOnce(acc, event) ==
    IF event.kind = "CellReplicated"
    THEN [acc EXCEPT !.replications = @ + 1]
    ELSE IF event.kind = "SignalEmitted"
    THEN [acc EXCEPT !.signals = DictPut(@, event.topic, 1),
                     !.signals_keys = KeysPut(@, event.topic)]
    ELSE IF event.kind = "LineageShift"
    THEN [acc EXCEPT !.lineage_shifts = CounterAdd(@, event.lineage, 1),
                     !.lineage_shifts_keys = KeysPut(@, event.lineage)]
    ELSE acc

\* Mutant of DigestEvent: an event of any other kind counts as a replication.
DigestEvent_OtherKindsCounted(acc, event) ==
    IF event.kind = "CellReplicated"
    THEN [acc EXCEPT !.replications = @ + 1]
    ELSE IF event.kind = "SignalEmitted"
    THEN [acc EXCEPT !.signals = CounterAdd(@, event.topic, 1),
                     !.signals_keys = KeysPut(@, event.topic)]
    ELSE IF event.kind = "LineageShift"
    THEN [acc EXCEPT !.lineage_shifts = CounterAdd(@, event.lineage, 1),
                     !.lineage_shifts_keys = KeysPut(@, event.lineage)]
    ELSE [acc EXCEPT !.replications = @ + 1]

\* One iteration of the loop of _digest_buffer.
DigestEvent(acc, event) ==
    IF event.kind = "CellReplicated"
    THEN [acc EXCEPT !.replications = @ + 1]
    ELSE IF event.kind = "SignalEmitted"
    THEN [acc EXCEPT !.signals = CounterAdd(@, event.topic, 1),
                     !.signals_keys = KeysPut(@, event.topic)]
    ELSE IF event.kind = "LineageShift"
    THEN [acc EXCEPT !.lineage_shifts = CounterAdd(@, event.lineage, 1),
                     !.lineage_shifts_keys = KeysPut(@, event.lineage)]
    ELSE acc

RECURSIVE DigestFrom(_, _, _)
DigestFrom(acc, buf, i) ==
    IF i > Len(buf) THEN acc
    ELSE DigestFrom(DigestEvent(acc, buf[i]), buf, i + 1)

_digest_buffer(buf) ==
    DigestFrom([replications |-> 0,
                signals |-> EmptyDict, signals_keys |-> <<>>,
                lineage_shifts |-> EmptyDict, lineage_shifts_keys |-> <<>>],
               buf, 1)

\* Mutant of FinaliseStep: the buffer is digested after it has been cleared.
FinaliseStep_DigestAfterClear(summary, buf) ==
    LET stats == _digest_buffer(<<>>)
    IN [threat_score |-> summary.threat_score,
        cell_count |-> summary.cell_count,
        replications |-> stats.replications,
        signals |-> stats.signals,
        signals_keys |-> stats.signals_keys,
        lineage_shifts |-> stats.lineage_shifts,
        lineage_shifts_keys |-> stats.lineage_shifts_keys]

\* The StepMetrics record built at a StepSummary.
FinaliseStep(summary, buf) ==
    LET stats == _digest_buffer(buf)
    IN [threat_score |-> summary.threat_score,
        cell_count |-> summary.cell_count,
        replications |-> stats.replications,
        signals |-> stats.signals,
        signals_keys |-> stats.signals_keys,
        lineage_shifts |-> stats.lineage_shifts,
        lineage_shifts_keys |-> stats.lineage_shifts_keys]

\* The locals of load_telemetry_per_step before the first line is read.
LoadInit ==
    [per_step |-> EmptyDict, buffer |-> <<>>, ordered_events |-> <<>>, error |-> "none"]

\* Mutant of ProcessLine: the key is the number of boundaries seen, not summary.step.
ProcessLine_KeyByCount(st, line) ==
    IF st.error # "none" THEN st
    ELSE IF line.type = "blank" THEN st
    ELSE IF line.type = "corrupt" THEN [st EXCEPT !.error = "JSONDecodeError"]
    ELSE LET event == line.event
             logged == Append(st.ordered_events, <<line.timestamp_ms, event>>)
             seen == Cardinality({i \in 1..Len(st.ordered_events) :
                                     st.ordered_events[i][2].kind = "StepSummary"})
         IN IF event.kind = "StepSummary"
            THEN [st EXCEPT !.ordered_events = logged,
                            !.per_step = DictPut(@, seen, FinaliseStep(event, st.buffer)),
                            !.buffer = <<>>]
            ELSE [st EXCEPT !.ordered_events = logged,
                            !.buffer = Append(@, event)]

\* Mutant of ProcessLine: a step already in the mapping keeps its first record.
ProcessLine_FirstWriteWins(st, line) ==
    IF st.error # "none" THEN st
    ELSE IF line.type = "blank" THEN st
    ELSE IF line.type = "corrupt" THEN [st EXCEPT !.error = "JSONDecodeError"]
    ELSE LET event == line.event
             logged == Append(st.ordered_events, <<line.timestamp_ms, event>>)
         IN IF event.kind = "StepSummary"
            THEN [st EXCEPT !.ordered_events = logged,
                            !.per_step = IF event.step \in DOMAIN @ THEN @
                                         ELSE DictPut(@, event.step,
                                                      FinaliseStep(event, st.buffer)),
                            !.buffer = <<>>]
            ELSE [st EXCEPT !.ordered_events = logged,
                            !.buffer = Append(@, event)]

\* Mutant of ProcessLine: the buffer is not cleared at a StepSummary.
ProcessLine_KeepBuffer(st, line) ==
    IF st.error # "none" THEN st
    ELSE IF line.type = "blank" THEN st
    ELSE IF line.type = "corrupt" THEN [st EXCEPT !.error = "JSONDecodeError"]
    ELSE LET event == line.event
             logged == Append(st.ordered_events, <<line.timestamp_ms, event>>)
         IN IF event.kind = "StepSummary"
            THEN [st EXCEPT !.ordered_events = logged,
                            !.per_step = DictPut(@, event.step, FinaliseStep(event, st.buffer))]
            ELSE [st EXCEPT !.ordered_events = logged,
                            !.buffer = Append(@, event)]

\* Mutant of ProcessLine: a replication is also credited to the step finalised last.
ProcessLine_CreditPreviousStep(st, line) ==
    IF st.error # "none" THEN st
    ELSE IF line.type = "blank" THEN st
    ELSE IF line.type = "corrupt" THEN [st EXCEPT !.error = "JSONDecodeError"]
    ELSE LET event == line.event
             logged == Append(st.ordered_events, <<line.timestamp_ms, event>>)
             summaries == {i \in 1..Len(st.ordered_events) :
                              st.ordered_events[i][2].kind = "StepSummary"}
             last == st.ordered_events[CHOOSE i \in summaries :
                                          \A j \in summaries : j <= i][2].step
         IN IF event.kind = "StepSummary"
            THEN [st EXCEPT !.ordered_events = logged,
                            !.per_step = DictPut(@, event.step, FinaliseStep(event, st.buffer)),
                            !.buffer = <<>>]
            ELSE IF event.kind = "CellReplicated" /\ summaries # {}
            THEN [st EXCEPT !.ordered_events = logged,
                            !.per_step[last].replications = @ + 1,
                            !.buffer = Append(@, event)]
            ELSE [st EXCEPT !.ordered_events = logged,
                            !.buffer = Append(@, event)]

\* Mutant of ProcessLine: an event stamped earlier than the event logged before
\* it is taken as late and is not buffered.
ProcessLine_DropsLateEvents(st, line) ==
    IF st.error # "none" THEN st
    ELSE IF line.type = "blank" THEN st
    ELSE IF line.type = "corrupt" THEN [st EXCEPT !.error = "JSONDecodeError"]
    ELSE LET event == line.event
             logged == Append(st.ordered_events, <<line.timestamp_ms, event>>)
             late == /\ st.ordered_events # <<>>
                     /\ line.timestamp_ms < st.ordered_events[Len(st.ordered_events)][1]
         IN IF event.kind = "StepSummary"
            THEN [st EXCEPT !.ordered_events = logged,
                            !.per_step = DictPut(@, event.step, FinaliseStep(event, st.buffer)),
                            !.buffer = <<>>]
            ELSE [st EXCEPT !.ordered_events = logged,
                            !.buffer = IF late THEN @ ELSE Append(@, event)]

\* One iteration of the for-loop of load_telemetry_per_step over a line.
ProcessLine(st, line) ==
    IF st.error # "none" THEN st
    ELSE IF line.type = "blank" THEN st
    ELSE IF line.type = "corrupt" THEN [st EXCEPT !.error = "JSONDecodeError"]
    ELSE LET event == line.event
             logged == Append(st.ordered_events, <<line.timestamp_ms, event>>)
         IN IF event.kind = "StepSummary"
            THEN [st EXCEPT !.ordered_events = logged,
                            !.per_step = DictPut(@, event.step, FinaliseStep(event, st.buffer)),
                            !.buffer = <<>>]
            ELSE [st EXCEPT !.ordered_events = logged,
                            !.buffer = Append(@, event)]

\* Mutant of EndOfStream: a non-empty trailing buffer is flushed as a final step.
EndOfStream_Flush(st) ==
    IF st.buffer = <<>> THEN st.per_step
    ELSE LET keys == DOMAIN st.per_step
             next == IF keys = {} THEN 0
                     ELSE 1 + (CHOOSE k \in keys : \A j \in keys : j <= k)
         IN DictPut(st.per_step, next,
                    FinaliseStep([threat_score |-> 0, cell_count |-> 0], st.buffer))

\* What load_telemetry_per_step returns once the file is exhausted.
EndOfStream(st) == st.per_step

RECURSIVE LoadFrom(_, _, _)
LoadFrom(st, lines, i) ==
    IF i > Len(lines) THEN st
    ELSE LoadFrom(ProcessLine(st, lines[i]), lines, i + 1)

\* load_telemetry_per_step applied to the lines of an existing file:
\* the per-step mapping it returns and the error it raises, if any.
load_telemetry_per_step(lines) ==
    LET st == LoadFrom(LoadInit, lines, 1)
    IN [per_step |-> IF st.error = "none" THEN EndOfStream(st) ELSE EmptyDict,
        error |-> st.error]


\* Mutant of StimulusLine: the value is weighted by the duration of the record.
StimulusLine_WeightedByDuration(st, line) ==
    IF st.error # "none" THEN st
    ELSE IF line.type = "blank" THEN st
    ELSE IF line.type = "corrupt" THEN [st EXCEPT !.error = "JSONDecodeError"]
    ELSE LET entry == DictGet(st.stimuli, line.step, [total |-> 0, topics |-> EmptyDict])
             value == line.value * line.duration
         IN [st EXCEPT !.stimuli =
                DictPut(@, line.step,
                        [total |-> entry.total + value,
                         topics |-> CounterAdd(entry.topics, line.topic, value)])]

\* One iteration of the for-loop of load_stimuli over a line.
StimulusLine(st, line) ==
    IF st.error # "none" THEN st
    ELSE IF line.type = "blank" THEN st
    ELSE IF line.type = "corrupt" THEN [st EXCEPT !.error = "JSONDecodeError"]
    ELSE LET entry == DictGet(st.stimuli, line.step, [total |-> 0, topics |-> EmptyDict])
         IN [st EXCEPT !.stimuli =
                DictPut(@, line.step,
                        [total |-> entry.total + line.value,
                         topics |-> CounterAdd(entry.topics, line.topic, line.value)])]

RECURSIVE StimuliFrom(_, _, _)
StimuliFrom(st, lines, i) ==
    IF i > Len(lines) THEN st
    ELSE StimuliFrom(StimulusLine(st, lines[i]), lines, i + 1)

\* Mutant of load_stimuli: a missing stimulus file is read as an empty one.
load_stimuli_MissingAsEmpty(path, lines) ==
    IF path = "none" THEN [stimuli |-> EmptyDict, error |-> "none"]
    ELSE IF path = "missing" THEN [stimuli |-> EmptyDict, error |-> "none"]
    ELSE LET st == StimuliFrom([stimuli |-> EmptyDict, error |-> "none"], lines, 1)
         IN [stimuli |-> IF st.error = "none" THEN st.stimuli ELSE EmptyDict,
             error |-> st.error]

\* load_stimuli(path): path is "none" (no --stimulus), "missing" or "present";
\* lines is the content of the file when it is present.
load_stimuli(path, lines) ==
    IF path = "none" THEN [stimuli |-> EmptyDict, error |-> "none"]
    ELSE IF path = "missing" THEN [stimuli |-> EmptyDict, error |-> "FileNotFoundError"]
    ELSE LET st == StimuliFrom([stimuli |-> EmptyDict, error |-> "none"], lines, 1)
         IN [stimuli |-> IF st.error = "none" THEN st.stimuli ELSE EmptyDict,
             error |-> st.error]

\* ------------------------------------------------------ Python floats
\* A Python float is an IEEE-754 double: sign * m * 2^e with m below 2^53.  TLC's
\* integers are 32 bits wide, so m is a natural number written in base 2^15, least
\* significant digit first, without leading zeros (0 is the empty sequence).
\* Every operation rounds its exact result to the nearest double, ties to even.
\* Exponent overflow and subnormals do not arise for the magnitudes handled here.
BigBase == 32768
BigZero == <<>>
BigOne == <<1>>

RECURSIVE BigNorm(_)
BigNorm(a) ==
    IF a = <<>> THEN <<>>
    ELSE IF a[Len(a)] = 0 THEN BigNorm(SubSeq(a, 1, Len(a) - 1))
    ELSE a

BigDigit(a, i) == IF i >= 1 /\ i <= Len(a) THEN a[i] ELSE 0

RECURSIVE BigFromNat(_)
BigFromNat(n) == IF n = 0 THEN <<>> ELSE <<n % BigBase>> \o BigFromNat(n \div BigBase)

RECURSIVE BigCmpAt(_, _, _)
BigCmpAt(a, b, i) ==
    IF i = 0 THEN 0
    ELSE IF a[i] < b[i] THEN -1
    ELSE IF a[i] > b[i] THEN 1
    ELSE BigCmpAt(a, b, i - 1)

\* -1, 0 or 1 as a is below, equal to or above b.
BigCmp(a, b) ==
    IF Len(a) < Len(b) THEN -1
    ELSE IF Len(a) > Len(b) THEN 1
    ELSE BigCmpAt(a, b, Len(a))

RECURSIVE BigAddAt(_, _, _, _)
BigAddAt(a, b, i, carry) ==
    IF i > Len(a) /\ i > Len(b)
    THEN IF carry = 0 THEN <<>> ELSE <<carry>>
    ELSE LET t == BigDigit(a, i) + BigDigit(b, i) + carry
         IN <<t % BigBase>> \o BigAddAt(a, b, i + 1, t \div BigBase)

BigAdd(a, b) == BigAddAt(a, b, 1, 0)

RECURSIVE BigSubAt(_, _, _, _)
BigSubAt(a, b, i, borrow) ==
    IF i > Len(a) THEN <<>>
    ELSE LET t == a[i] - BigDigit(b, i) - borrow
         IN IF t < 0
            THEN <<t + BigBase>> \o BigSubAt(a, b, i + 1, 1)
            ELSE <<t>> \o BigSubAt(a, b, i + 1, 0)

\* a - b for a >= b.
BigSub(a, b) == BigNorm(BigSubAt(a, b, 1, 0))

RECURSIVE BigMulSmallAt(_, _, _, _)
BigMulSmallAt(a, d, i, carry) ==
    IF i > Len(a)
    THEN IF carry = 0 THEN <<>> ELSE <<carry>>
    ELSE LET t == a[i] * d + carry
         IN <<t % BigBase>> \o BigMulSmallAt(a, d, i + 1, t \div BigBase)

\* a * d for a digit d.
BigMulSmall(a, d) == IF d = 0 THEN <<>> ELSE BigMulSmallAt(a, d, 1, 0)

BigShiftDigits(a, n) == IF a = <<>> THEN <<>> ELSE [j \in 1..n |-> 0] \o a

RECURSIVE BigMulAt(_, _, _)
BigMulAt(a, b, i) ==
    IF i > Len(b) THEN <<>>
    ELSE BigAdd(BigShiftDigits(BigMulSmall(a, b[i]), i - 1), BigMulAt(a, b, i + 1))

BigMul(a, b) == BigMulAt(a, b, 1)

\* a * 2^k
BigShl(a, k) == BigShiftDigits(BigMulSmall(a, 2 ^ (k % 15)), k \div 15)

RECURSIVE BigDivSmallAt(_, _, _, _)
BigDivSmallAt(a, d, i, r) ==
    IF i = 0 THEN <<>>
    ELSE LET t == r * BigBase + a[i]
         IN Append(BigDivSmallAt(a, d, i - 1, t % d), t \div d)

BigShrBits(high, b) == BigNorm(BigDivSmallAt(high, 2 ^ b, Len(high), 0))

\* floor(a / 2^k)
BigShr(a, k) == BigShrBits(SubSeq(a, (k \div 15) + 1, Len(a)), k % 15)

DigitBits(d) == CHOOSE n \in 1..15 : 2 ^ (n - 1) <= d /\ d < 2 ^ n
BigBits(a) == IF a = <<>> THEN 0 ELSE 15 * (Len(a) - 1) + DigitBits(a[Len(a)])

RECURSIVE BigFixDown(_, _, _)
BigFixDown(r, b, q) ==
    IF BigCmp(BigMulSmall(b, q), r) > 0 THEN BigFixDown(r, b, q - 1) ELSE q

RECURSIVE BigDivAt(_, _, _, _)
RECURSIVE BigDivStep(_, _, _, _)
RECURSIVE BigDivDigit(_, _, _, _, _)

\* The quotient digit q found, the division goes on below digit i.
BigDivDigit(a, b, i, r1, q) ==
    [BigDivAt(a, b, i - 1, BigSub(r1, BigMulSmall(b, q))) EXCEPT !.q = Append(@, q)]

BigDivEstimate(r1, b) ==
    (BigDigit(r1, Len(b) + 1) * BigBase + BigDigit(r1, Len(b))) \div b[Len(b)]

\* r1 is the remainder so far with digit i of a brought down.
BigDivStep(a, b, i, r1) ==
    BigDivDigit(a, b, i, r1,
                BigFixDown(r1, b, IF BigDivEstimate(r1, b) > BigBase - 1 THEN BigBase - 1
                                  ELSE BigDivEstimate(r1, b)))

\* Long division in base 2^15 of the digits i..1 of a by b, whose top digit is at
\* least 2^14; r is the remainder left by the digits above i.
BigDivAt(a, b, i, r) ==
    IF i = 0 THEN [q |-> <<>>, r |-> r]
    ELSE BigDivStep(a, b, i, BigNorm(<<a[i]>> \o r))

BigDivNormal(an, bn) == BigDivAt(an, bn, Len(an), <<>>)
BigDivResult(res) == [q |-> BigNorm(res.q), inexact |-> res.r # <<>>]
BigDivScaled(a, b, f) == BigDivResult(BigDivNormal(BigMulSmall(a, f), BigMulSmall(b, f)))

\* floor(a / b) and whether the division left a remainder, for b > 0.
BigDivMod(a, b) == BigDivScaled(a, b, 2 ^ (15 - DigitBits(b[Len(b)])))

FloatZero == [s |-> 0, m |-> <<>>, e |-> 0]

RECURSIVE LowZeroDigits(_, _)
LowZeroDigits(m, i) == IF m[i] = 0 THEN LowZeroDigits(m, i + 1) ELSE i - 1
LowZeroBits(d) == CHOOSE t \in 0..14 : d % (2 ^ t) = 0 /\ d % (2 ^ (t + 1)) # 0

FloatShiftOut(s, m, e, t) == [s |-> s, m |-> BigShr(m, t), e |-> e + t]
FloatCanonAt(s, m, e, z) == FloatShiftOut(s, m, e, 15 * z + LowZeroBits(m[z + 1]))

\* The double sign * m * 2^e in canonical form: m odd, or zero.
FloatCanon(s, m, e) ==
    IF m = <<>> THEN FloatZero ELSE FloatCanonAt(s, m, e, LowZeroDigits(m, 1))

\* c compares the bits cut off below m with half a unit of m: round half to even.
RoundUp(s, m, e, inexact, c) ==
    FloatCanon(s,
               IF c > 0 \/ (c = 0 /\ (inexact \/ m[1] % 2 = 1)) THEN BigAdd(m, BigOne) ELSE m,
               e)

RoundTo(s, q, inexact, e, cut, m) ==
    RoundUp(s, m, e + cut, inexact,
            BigCmp(BigSub(q, BigShl(m, cut)), BigShl(BigOne, cut - 1)))

RoundCut(s, q, inexact, e, cut) == RoundTo(s, q, inexact, e, cut, BigShr(q, cut))

\* The double nearest to sign * q * 2^e for q of more than 53 bits; inexact
\* tells that q stands for a value slightly above q.
RoundQuotient(s, q, inexact, e) == RoundCut(s, q, inexact, e, BigBits(q) - 53)

RoundDivided(s, dm, e) == RoundQuotient(s, dm.q, dm.inexact, e)

\* n is scaled by 2^k so that the quotient has at least 55 bits.
RoundScaled(s, n, d, e, k) == RoundDivided(s, BigDivMod(BigShl(n, k), d), e - k)

\* The double nearest to sign * (n / d) * 2^e, ties to even.
FloatRound(s, n, d, e) ==
    IF n = <<>> THEN FloatZero
    ELSE IF d = BigOne
    THEN (IF BigBits(n) <= 53 THEN FloatCanon(s, n, e) ELSE RoundQuotient(s, n, FALSE, e))
    ELSE RoundScaled(s, n, d, e,
                     IF 55 + BigBits(d) - BigBits(n) > 0 THEN 55 + BigBits(d) - BigBits(n)
                     ELSE 0)

\* float(n) for an integer n.
FloatFromInt(n) ==
    IF n = 0 THEN FloatZero
    ELSE IF n < 0 THEN FloatCanon(-1, BigFromNat(-n), 0)
    ELSE FloatCanon(1, BigFromNat(n), 0)

\* The float a decimal literal n/d denotes (0.35 is FloatLit(35, 100)).
FloatLit(n, d) ==
    IF n < 0 THEN FloatRound(-1, BigFromNat(-n), BigFromNat(d), 0)
    ELSE FloatRound(1, BigFromNat(n), BigFromNat(d), 0)

\* -1, 0 or 1 as x is below, equal to or above y.
FloatCmp(x, y) ==
    IF x.s # y.s THEN (IF x.s < y.s THEN -1 ELSE 1)
    ELSE IF x.s = 0 THEN 0
    ELSE LET e == IF x.e < y.e THEN x.e ELSE y.e
             c == BigCmp(BigShl(x.m, x.e - e), BigShl(y.m, y.e - e))
         IN x.s * c

FloatLt(x, y) == FloatCmp(x, y) < 0
FloatLe(x, y) == FloatCmp(x, y) <= 0
FloatGt(x, y) == FloatCmp(x, y) > 0
\* max(x, y) and min(x, y) of Python: the first argument wins a tie.
FloatMax(x, y) == IF FloatGt(y, x) THEN y ELSE x
FloatMin(x, y) == IF FloatLt(y, x) THEN y ELSE x

\* xm and ym are the magnitudes at the common exponent e, c compares them.
FloatAddSigned(xs, ys, xm, ym, e, c) ==
    IF xs # ys /\ c = 0 THEN FloatZero
    ELSE FloatRound(IF xs = ys \/ c > 0 THEN xs ELSE ys,
                    IF xs = ys THEN BigAdd(xm, ym)
                    ELSE IF c > 0 THEN BigSub(xm, ym) ELSE BigSub(ym, xm),
                    BigOne, e)

FloatAddAligned(xs, ys, xm, ym, e) == FloatAddSigned(xs, ys, xm, ym, e, BigCmp(xm, ym))

FloatAddAt(x, y, e) ==
    FloatAddAligned(x.s, y.s, BigShl(x.m, x.e - e), BigShl(y.m, y.e - e), e)

FloatAdd(x, y) ==
    IF x.s = 0 THEN y
    ELSE IF y.s = 0 THEN x
    ELSE FloatAddAt(x, y, IF x.e < y.e THEN x.e ELSE y.e)

FloatNeg(x) == [x EXCEPT !.s = -x.s]
FloatSub(x, y) == FloatAdd(x, FloatNeg(y))
FloatMul(x, y) ==
    IF x.s = 0 \/ y.s = 0 THEN FloatZero
    ELSE FloatRound(x.s * y.s, BigMul(x.m, y.m), BigOne, x.e + y.e)
\* The value that stands for the ZeroDivisionError x / 0 raises.
ZeroDivisionError == [s |-> 0, m |-> <<>>, e |-> -1]
FloatDiv(x, y) ==
    IF y.s = 0 THEN ZeroDivisionError
    ELSE IF x.s = 0 THEN FloatZero
    ELSE FloatRound(x.s * y.s, x.m, y.m, x.e - y.e)

\* ------------------------------------- prepare_telemetry_dashboard.py
\* max(payload.items(), key=count): the index in keys of the first key, in
\* insertion order, whose count no other key exceeds.
TopIndex(payload, keys) ==
    CHOOSE i \in 1..Len(keys) :
        /\ \A j \in 1..Len(keys) : payload[keys[j]] <= payload[keys[i]]
        /\ \A j \in 1..(i - 1) : payload[keys[j]] < payload[keys[i]]

\* _top_item(payload) followed by the `or ""` of build_step_rows on the key.
_top_item(payload, keys) ==
    IF keys = <<>> THEN [key |-> "", count |-> 0]
    ELSE [key |-> keys[TopIndex(payload, keys)],
          count |-> payload[keys[TopIndex(payload, keys)]]]

\* The row build_step_rows appends for one step.
StepRow(step, metrics, stim_entry) ==
    [step |-> step,
     threat_score |-> metrics.threat_score,
     cell_count |-> metrics.cell_count,
     replications |-> metrics.replications,
     signals_total |-> _sum_values(metrics.signals),
     lineage_shifts_total |-> _sum_values(metrics.lineage_shifts),
     stimulus_total |-> stim_entry.total,
     top_signal_topic |-> _top_item(metrics.signals, metrics.signals_keys).key,
     top_signal_count |-> _top_item(metrics.signals, metrics.signals_keys).count,
     top_lineage |-> _top_item(metrics.lineage_shifts, metrics.lineage_shifts_keys).key,
     top_lineage_count |-> _top_item(metrics.lineage_shifts, metrics.lineage_shifts_keys).count,
     signals_by_topic |-> metrics.signals,
     lineage_shifts_by_lineage |-> metrics.lineage_shifts,
     stimulus_by_topic |-> stim_entry.topics]

\* sorted(per_step): the keys in ascending order.
RECURSIVE SortedKeys(_)
SortedKeys(keys) ==
    IF keys = {} THEN <<>>
    ELSE LET m == CHOOSE x \in keys : \A y \in keys : x <= y
         IN <<m>> \o SortedKeys(keys \ {m})

\* Mutant of build_step_rows: the steps are visited in descending order.
build_step_rows_Descending(perStep, stim) ==
    LET order == SortedKeys(DOMAIN perStep)
        n == Len(order)
    IN [i \in 1..n |->
          StepRow(order[n + 1 - i], perStep[order[n + 1 - i]],
                  DictGet(stim, order[n + 1 - i], [total |-> 0, topics |-> EmptyDict]))]

\* The rows of build_step_rows, one per step in ascending order.
build_step_rows(perStep, stim) ==
    LET order == SortedKeys(DOMAIN perStep)
    IN [i \in 1..Len(order) |->
          StepRow(order[i], perStep[order[i]],
                  DictGet(stim, order[i], [total |-> 0, topics |-> EmptyDict]))]

\* The keys of a row once apply_annotations has run.
RowColumns ==
    {"step", "threat_score", "cell_count", "replications", "signals_total",
     "lineage_shifts_total", "stimulus_total", "top_signal_topic", "top_signal_count",
     "top_lineage", "top_lineage_count", "signals_by_topic", "lineage_shifts_by_lineage",
     "stimulus_by_topic", "lineage_pressure", "lineage_focus_ratio", "lineage_component",
     "fitness_score", "breach_observed", "recommended_mutation"}

\* build_vega_spec raises ValueError when no requested metric is a column.
build_vega_spec(rowSeq, metrics) ==
    IF Len(rowSeq) = 0 THEN "ValueError"
    ELSE IF metrics \cap RowColumns = {} THEN "ValueError"
    ELSE "none"

\* Values of --metrics tried.
MetricChoices == {{"fitness_score"}, {"fitness_score", "bogus"}, {"bogus"}}

\* ------------------------------------------------------------ state
VARIABLES
    pc,              \* where main (or a direct caller of the loader) stands
    telemetry,       \* args.telemetry: "missing" or "present"
    file,            \* the lines of the telemetry file read so far
    per_step,        \* load_telemetry_per_step: step -> StepMetrics
    buffer,          \* load_telemetry_per_step: events since the last StepSummary
    ordered_events,  \* load_telemetry_per_step: (timestamp, event) in log order
    stimulus,        \* args.stimulus: "unread", "none", "missing" or "present"
    stimuli,         \* main: the result of load_stimuli
    rows,            \* main: the rows of build_step_rows
    outputs,         \* the output files written
    messages,        \* the [info] lines printed
    stim_file,       \* load_stimuli called on its own: the lines read so far
    stats,           \* build_step_rows: the RunStats of _finalise_aggregates
    annotations,     \* derive_harness_annotations: the FitnessAnnotation
    first_run,       \* what an earlier run of the pipeline on the same input returned
    analyzer,        \* analyze_telemetry.py: the locals of main
    shuffler,        \* generate_block_shuffled_control.py: the locals of main
    error            \* the exception that left main, and the call that raised it

vars == <<pc, telemetry, file, per_step, buffer, ordered_events, stimulus, stimuli,
          rows, outputs, messages, stim_file, stats, annotations, first_run, analyzer,
          shuffler, error>>

\* The state of the runs and scripts an action of the dashboard has no part in.
elsewhere == <<first_run, analyzer, shuffler>>

NoError == [type |-> "none", raised_by |-> "none"]
Raised(type, by) == [type |-> type, raised_by |-> by]

SeqsUpTo(S, n) == UNION {[1..k -> S] : k \in 0..n}
StimFiles == SeqsUpTo(StimLines, MaxStimLines)

Init ==
    /\ pc = "load_telemetry"
    /\ telemetry \in {"missing", "present"}
    /\ file = <<>>
    /\ per_step = EmptyDict
    /\ buffer = <<>>
    /\ ordered_events = <<>>
    /\ stimulus = "unread"
    /\ stimuli = EmptyDict
    /\ rows = <<>>
    /\ outputs = {}
    /\ messages = <<>>
    /\ stim_file = <<>>
    /\ stats = <<>>
    /\ annotations = <<>>
    /\ error = NoError
    /\ first_run = <<>>
    /\ analyzer = <<>>
    /\ shuffler = <<>>

\* Mutant of OpenTelemetry: the buffer is an object that outlives the call.
OpenTelemetry_KeepsBuffer ==
    /\ pc = "load_telemetry"
    /\ IF telemetry = "missing"
       THEN /\ pc' = "raised"
            /\ error' = Raised("FileNotFoundError", "load_telemetry_per_step")
            /\ UNCHANGED <<per_step, buffer, ordered_events>>
       ELSE /\ pc' = "reading"
            /\ per_step' = LoadInit.per_step
            /\ UNCHANGED buffer
            /\ ordered_events' = LoadInit.ordered_events
            /\ UNCHANGED error
    /\ UNCHANGED <<stim_file, stats, annotations>>
    /\ UNCHANGED <<telemetry, file, stimulus, stimuli, rows, outputs, messages>>
    /\ UNCHANGED elsewhere

\* load_telemetry_per_step, lines 31-36: the existence check and the locals.
OpenTelemetry ==
    /\ pc = "load_telemetry"
    /\ IF telemetry = "missing"
       THEN /\ pc' = "raised"
            /\ error' = Raised("FileNotFoundError", "load_telemetry_per_step")
            /\ UNCHANGED <<per_step, buffer, ordered_events>>
       ELSE /\ pc' = "reading"
            /\ per_step' = LoadInit.per_step
            /\ buffer' = LoadInit.buffer
            /\ ordered_events' = LoadInit.ordered_events
            /\ UNCHANGED error
    /\ UNCHANGED <<stim_file, stats, annotations>>
    /\ UNCHANGED <<telemetry, file, stimulus, stimuli, rows, outputs, messages>>
    /\ UNCHANGED elsewhere

\* load_telemetry_per_step, lines 39-60: the loop body on the next line, which
\* is one of `candidates`.
ReadLineFrom(candidates, limit) ==
    /\ pc = "reading"
    /\ Len(file) < limit
    /\ \E line \in candidates :
         LET st == ProcessLine([per_step |-> per_step, buffer |-> buffer,
                                ordered_events |-> ordered_events, error |-> "none"], line)
         IN /\ file' = Append(file, line)
            /\ per_step' = st.per_step
            /\ buffer' = st.buffer
            /\ ordered_events' = st.ordered_events
            /\ IF st.error = "none"
               THEN UNCHANGED <<pc, error>>
               ELSE /\ pc' = "raised"
                    /\ error' = Raised(st.error, "load_telemetry_per_step")
    /\ UNCHANGED <<stim_file, stats, annotations>>
    /\ UNCHANGED <<telemetry, stimulus, stimuli, rows, outputs, messages>>
    /\ UNCHANGED elsewhere

ReadLine(limit) == ReadLineFrom(Lines, limit)

\* load_telemetry_per_step, line 62: the file is exhausted, the mapping is returned.
EndOfFile ==
    /\ pc = "reading"
    /\ pc' = "telemetry_loaded"
    /\ per_step' = EndOfStream([per_step |-> per_step, buffer |-> buffer,
                                ordered_events |-> ordered_events, error |-> "none"])
    /\ UNCHANGED <<stim_file, stats, annotations>>
    /\ UNCHANGED <<telemetry, file, buffer, ordered_events, stimulus, stimuli, rows,
                   outputs, messages, error>>
    /\ UNCHANGED elsewhere

\* main, line 82: stimuli = load_stimuli(args.stimulus).
LoadStimuli ==
    /\ pc = "telemetry_loaded"
    /\ \E path \in {"none", "missing", "present"} :
       \E lines \in (IF path = "present" THEN StimFiles ELSE {<<>>}) :
         LET res == load_stimuli(path, lines)
         IN /\ stimulus' = path
            /\ stimuli' = res.stimuli
            /\ IF res.error = "none"
               THEN /\ pc' = "stimuli_loaded"
                    /\ UNCHANGED error
               ELSE /\ pc' = "raised"
                    /\ error' = Raised(res.error, "load_stimuli")
    /\ UNCHANGED <<stim_file, stats, annotations>>
    /\ UNCHANGED <<telemetry, file, per_step, buffer, ordered_events, rows, outputs,
                   messages>>
    /\ UNCHANGED elsewhere

\* Mutant of NothingToExport: an empty per-step CSV is written before returning.
NothingToExport_WritesEmptyCsv ==
    /\ pc = "stimuli_loaded"
    /\ per_step = EmptyDict
    /\ messages' = Append(messages, "No StepSummary events found; nothing to export.")
    /\ outputs' = outputs \cup {"csv"}
    /\ pc' = "done"
    /\ UNCHANGED <<stim_file, stats, annotations>>
    /\ UNCHANGED <<telemetry, file, per_step, buffer, ordered_events, stimulus, stimuli,
                   rows, error>>
    /\ UNCHANGED elsewhere

\* main, lines 84-86: nothing to export.
NothingToExport ==
    /\ pc = "stimuli_loaded"
    /\ per_step = EmptyDict
    /\ messages' = Append(messages, "No StepSummary events found; nothing to export.")
    /\ pc' = "done"
    /\ UNCHANGED <<stim_file, stats, annotations>>
    /\ UNCHANGED <<telemetry, file, per_step, buffer, ordered_events, stimulus, stimuli,
                   rows, outputs, error>>
    /\ UNCHANGED elsewhere

\* main, line 88: the rows are built.
BuildRows ==
    /\ pc = "stimuli_loaded"
    /\ per_step # EmptyDict
    /\ rows' = build_step_rows(per_step, stimuli)
    /\ pc' = "write_csv"
    /\ UNCHANGED <<stim_file, stats, annotations>>
    /\ UNCHANGED <<telemetry, file, per_step, buffer, ordered_events, stimulus, stimuli,
                   outputs, messages, error>>
    /\ UNCHANGED elsewhere

\* main, lines 92-93: the per-step CSV is written.
WriteCsv ==
    /\ pc = "write_csv"
    /\ outputs' = outputs \cup {"csv"}
    /\ messages' = Append(messages, "Wrote step rows")
    /\ pc' = "lineage"
    /\ UNCHANGED <<stim_file, stats, annotations>>
    /\ UNCHANGED <<telemetry, file, per_step, buffer, ordered_events, stimulus, stimuli,
                   rows, error>>
    /\ UNCHANGED elsewhere

\* main, lines 95-98: the lineage CSV is written when --lineage-output is given.
WriteLineage ==
    /\ pc = "lineage"
    /\ \E lineage_output \in BOOLEAN :
         IF lineage_output
         THEN /\ outputs' = outputs \cup {"lineage_csv"}
              /\ messages' = Append(messages, "Wrote lineage rows")
         ELSE UNCHANGED <<outputs, messages>>
    /\ pc' = "vega"
    /\ UNCHANGED <<stim_file, stats, annotations>>
    /\ UNCHANGED <<telemetry, file, per_step, buffer, ordered_events, stimulus, stimuli,
                   rows, error>>
    /\ UNCHANGED elsewhere

\* main, lines 100-104: the chart spec is built and written when --vega-lite is given.
WriteVega ==
    /\ pc = "vega"
    /\ \E vega_lite \in BOOLEAN :
       \E metrics \in (IF vega_lite THEN MetricChoices ELSE {{}}) :
         IF ~vega_lite
         THEN /\ pc' = "done"
              /\ UNCHANGED <<outputs, messages, error>>
         ELSE IF build_vega_spec(rows, metrics) # "none"
         THEN /\ pc' = "raised"
              /\ error' = Raised(build_vega_spec(rows, metrics), "build_vega_spec")
              /\ UNCHANGED <<outputs, messages>>
         ELSE /\ pc' = "done"
              /\ outputs' = outputs \cup {"vega_spec"}
              /\ messages' = Append(messages, "Wrote Vega-Lite spec")
              /\ UNCHANGED error
    /\ UNCHANGED <<stim_file, stats, annotations>>
    /\ UNCHANGED <<telemetry, file, per_step, buffer, ordered_events, stimulus, stimuli,
                   rows>>
    /\ UNCHANGED elsewhere

\* The loader called on its own: load_telemetry_per_step from entry to return.
ReadTelemetryLine == ReadLine(MaxLines)

Next ==
    \/ OpenTelemetry
    \/ ReadTelemetryLine
    \/ EndOfFile

Spec == Init /\ [][Next]_vars

\* The dashboard pipeline: main from its first call to its return.
MaxMainLines == 3
ReadMainLine == ReadLine(MaxMainLines)

NextMain ==
    \/ OpenTelemetry
    \/ ReadMainLine
    \/ EndOfFile
    \/ LoadStimuli
    \/ NothingToExport
    \/ BuildRows
    \/ WriteCsv
    \/ WriteLineage
    \/ WriteVega

SpecMain == Init /\ [][NextMain]_vars

\* ------------------------------------------------------- properties
\* What the log says, stated over the lines read and not over the loader's locals.
SummaryIdx(f) == {i \in 1..Len(f) : IsSummaryLine(f[i])}
MaxOf(S) == CHOOSE x \in S : \A y \in S : y <= x
LastSummary(f) == MaxOf(SummaryIdx(f) \cup {0})
LastSummaryOf(f, s) == MaxOf({i \in SummaryIdx(f) : f[i].event.step = s})
PrevBoundary(f, i) == MaxOf({j \in SummaryIdx(f) : j < i} \cup {0})
\* The lines attributed to the StepSummary at line i.
Window(f, i) == (PrevBoundary(f, i) + 1)..i
KindCount(f, i, kind) ==
    Cardinality({k \in Window(f, i) : f[k].type = "record" /\ f[k].event.kind = kind})
TopicCount(f, i, t) ==
    Cardinality({k \in Window(f, i) :
        f[k].type = "record" /\ f[k].event.kind = "SignalEmitted" /\ f[k].event.topic = t})
LineageCount(f, i, l) ==
    Cardinality({k \in Window(f, i) :
        f[k].type = "record" /\ f[k].event.kind = "LineageShift" /\ f[k].event.lineage = l})
ExpectedSignals(f, i) ==
    [t \in {u \in Topics : TopicCount(f, i, u) > 0} |-> TopicCount(f, i, t)]
ExpectedLineageShifts(f, i) ==
    [l \in {u \in Lineages : LineageCount(f, i, u) > 0} |-> LineageCount(f, i, l)]
\* The line of the window of i on which key k of `field` occurs first.
FirstSeen(f, i, kind, field, k) ==
    CHOOSE n \in Window(f, i) :
        /\ f[n].type = "record" /\ f[n].event.kind = kind /\ f[n].event[field] = k
        /\ \A m \in Window(f, i) :
              (f[m].type = "record" /\ f[m].event.kind = kind /\ f[m].event[field] = k)
                  => n <= m
\* The keys of a counter of the window of i, by first occurrence.
IsExpectedOrder(keys, f, i, kind, field, counter) ==
    /\ Len(keys) = Cardinality(DOMAIN counter)
    /\ {keys[n] : n \in 1..Len(keys)} = DOMAIN counter
    /\ \A m, n \in 1..Len(keys) :
          m < n => FirstSeen(f, i, kind, field, keys[m]) < FirstSeen(f, i, kind, field, keys[n])
ExpectedKeys(f, i, kind, field, counter) ==
    CHOOSE keys \in SeqsUpTo(DOMAIN counter, Cardinality(DOMAIN counter)) :
        IsExpectedOrder(keys, f, i, kind, field, counter)
ExpectedMetrics(f, i) ==
    [threat_score |-> f[i].event.threat_score,
     cell_count |-> f[i].event.cell_count,
     replications |-> KindCount(f, i, "CellReplicated"),
     signals |-> ExpectedSignals(f, i),
     signals_keys |-> ExpectedKeys(f, i, "SignalEmitted", "topic", ExpectedSignals(f, i)),
     lineage_shifts |-> ExpectedLineageShifts(f, i),
     lineage_shifts_keys |->
         ExpectedKeys(f, i, "LineageShift", "lineage", ExpectedLineageShifts(f, i))]
Kinds(f) == [i \in 1..Len(f) |-> IF f[i].type = "record" THEN f[i].event.kind ELSE f[i].type]

\* C1: for every step s of the per-step mapping, the sum of the values of
\* per_step[s].signals is the number of SignalEmitted events between the previous
\* StepSummary (exclusive) and the StepSummary that produced the entry (inclusive).
C1_SignalSum ==
    \A s \in DOMAIN per_step :
        _sum_values(per_step[s].signals)
            = KindCount(file, LastSummaryOf(file, s), "SignalEmitted")

\* A second boundary whose window holds two signals on two topics.
C1_Witness ==
    /\ pc = "telemetry_loaded"
    /\ \E s \in DOMAIN per_step :
         /\ PrevBoundary(file, LastSummaryOf(file, s)) > 0
         /\ DOMAIN per_step[s].signals = Topics
         /\ _sum_values(per_step[s].signals) = 2

\* C2: events are attributed to the following boundary: the record emitted at a
\* StepSummary counts the CellReplicated events, and per lineage the LineageShift
\* events, between the previous StepSummary and this one; for the stream
\* [StepSummary(0), CellReplicated, LineageShift(X), StepSummary(1)] step 0 has
\* replications 0 and no lineage shifts, step 1 has replications 1 and {X: 1}.
C2_FollowingBoundary ==
    /\ \A s \in DOMAIN per_step :
         LET i == LastSummaryOf(file, s)
         IN /\ per_step[s].replications = KindCount(file, i, "CellReplicated")
            /\ per_step[s].lineage_shifts = ExpectedLineageShifts(file, i)
    /\ ( /\ Kinds(file) = <<"StepSummary", "CellReplicated", "LineageShift", "StepSummary">>
         /\ file[1].event.step = 0
         /\ file[3].event.lineage = "X"
         /\ file[4].event.step = 1 )
       => /\ per_step[0].replications = 0
          /\ per_step[0].lineage_shifts = EmptyDict
          /\ per_step[1].replications = 1
          /\ per_step[1].lineage_shifts = [l \in {"X"} |-> 1]

\* The scenario stream of the claim, read to its end.
C2_Witness ==
    /\ pc = "telemetry_loaded"
    /\ Kinds(file) = <<"StepSummary", "CellReplicated", "LineageShift", "StepSummary">>
    /\ file[1].event.step = 0
    /\ file[3].event.lineage = "X"
    /\ file[4].event.step = 1
    /\ DOMAIN per_step = {0, 1}

\* C3: after any prefix of the stream, the keys of the per-step mapping are exactly
\* the step values carried by the StepSummary events seen so far.
C3_KeysAreSteps ==
    DOMAIN per_step = {file[i].event.step : i \in SummaryIdx(file)}

\* A StepSummary whose step is neither its line number nor the number of
\* boundaries seen (counted from 0 or from 1) has been processed.
C3_Witness ==
    \E i \in SummaryIdx(file) :
        LET n == Cardinality({j \in SummaryIdx(file) : j <= i})
        IN /\ file[i].event.step \notin {i, i - 1, n, n - 1}
           /\ file[i].event.step \in DOMAIN per_step

\* C4: when several StepSummary events carry the same step, the mapping holds for
\* that step the record built at the last of them (its threat_score, its cell_count
\* and the digest of the buffer accumulated just before it) and nothing else.
C4_LastWriteWins ==
    \A s \in DOMAIN per_step :
        Cardinality({i \in SummaryIdx(file) : file[i].event.step = s}) >= 2
            => per_step[s] = ExpectedMetrics(file, LastSummaryOf(file, s))

\* Two StepSummary events of one step that differ in payload and in digest.
C4_Witness ==
    \E i, j \in SummaryIdx(file) :
        /\ i < j
        /\ file[i].event.step = file[j].event.step
        /\ file[i].event.threat_score # file[j].event.threat_score
        /\ ExpectedMetrics(file, i).replications # ExpectedMetrics(file, j).replications
        /\ j = LastSummaryOf(file, file[j].event.step)

\* C5: events after the last StepSummary contribute to no record: the mapping
\* returned is the one returned for the stream cut right after its last StepSummary.
C5_NoTrailingFlush ==
    pc = "telemetry_loaded"
        => per_step = load_telemetry_per_step(SubSeq(file, 1, LastSummary(file))).per_step

\* A stream that ends with countable events after its last StepSummary.
C5_Witness ==
    /\ pc = "telemetry_loaded"
    /\ per_step # EmptyDict
    /\ Len(buffer) >= 2
    /\ \E i \in 1..Len(buffer) : buffer[i].kind = "CellReplicated"

\* C6: the buffer holds, in log order, exactly the non-StepSummary events seen since
\* the most recent StepSummary (since the start if there is none); it is empty right
\* after a StepSummary, and a StepSummary is never put into it.
TailEvents(f) ==
    LET tail == SelectSeq(SubSeq(f, LastSummary(f) + 1, Len(f)), IsEventLine)
    IN [i \in 1..Len(tail) |-> tail[i].event]

C6_BufferSinceBoundary ==
    /\ buffer = TailEvents(file)
    /\ (file # <<>> /\ IsSummaryLine(file[Len(file)])) => buffer = <<>>
    /\ \A i \in 1..Len(buffer) : buffer[i].kind # "StepSummary"

\* Two different events buffered after a boundary that itself followed events.
C6_Witness ==
    /\ Len(buffer) = 2
    /\ buffer[1] # buffer[2]
    /\ LastSummary(file) = 2

\* C7: a finalised record is never mutated: a step of the pipeline leaves every
\* entry of the mapping as it was, except the entry of step s when the step
\* processes a StepSummary for s.
C7_RecordsImmutable ==
    [][\A k \in DOMAIN per_step :
          \/ k \in DOMAIN per_step' /\ per_step'[k] = per_step[k]
          \/ /\ Len(file') = Len(file) + 1
             /\ IsSummaryLine(file'[Len(file')])
             /\ file'[Len(file')].event.step = k]_vars

\* Rows were built from a mapping of two steps, the second finalised after
\* replications that followed the first.
C7_Witness ==
    /\ pc = "write_csv"
    /\ Len(rows) = 2
    /\ \E s \in DOMAIN per_step : per_step[s].replications > 0
    /\ \E s \in DOMAIN per_step : per_step[s].replications = 0

\* C8: a line that fails to parse is skipped and the rest of the log is processed:
\* no error is raised, and the mapping returned is the one of the log without it.
HasCorruptLine(f) == \E i \in 1..Len(f) : f[i].type = "corrupt"
WithoutCorruptLines(f) == SelectSeq(f, LAMBDA line : line.type # "corrupt")

C8_CorruptLineSkipped ==
    HasCorruptLine(file)
        => /\ error = NoError
           /\ pc # "raised"
           /\ pc = "telemetry_loaded"
                => per_step = load_telemetry_per_step(WithoutCorruptLines(file)).per_step

\* C9: a missing telemetry file, or a missing stimulus file when a path is given,
\* is a fatal error surfaced to the caller, and no output file is written.
C9_MissingInputFatal ==
    (telemetry = "missing" \/ stimulus = "missing")
        => /\ outputs = {}
           /\ pc \in {"load_telemetry", "raised"}
           /\ pc = "raised" => error.type = "FileNotFoundError"
           /\ (pc = "raised" /\ telemetry = "missing")
                => error.raised_by = "load_telemetry_per_step"
           /\ stimulus = "missing" => pc = "raised" /\ error.raised_by = "load_stimuli"

\* The stimulus file is missing for a telemetry log that has rows to export.
C9_Witness ==
    /\ stimulus = "missing"
    /\ per_step # EmptyDict
    /\ pc = "raised"

\* C10 as stated: a stream of events without any StepSummary yields the empty
\* mapping without raising, and the pipeline then terminates normally with the
\* informational message, without raising and without writing an output file.
\* (Stated for inputs every line of which parses.)
NoSummaryStream(f) ==
    \A i \in 1..Len(f) : f[i].type # "corrupt" /\ ~IsSummaryLine(f[i])
Finished == pc \in {"done", "raised"}
InfoNothingToExport == <<"No StepSummary events found; nothing to export.">>

C10_EmptyResultAlwaysNormal ==
    (Finished /\ telemetry = "present" /\ NoSummaryStream(file)
              /\ error.type # "JSONDecodeError")
        => /\ per_step = EmptyDict
           /\ pc = "done"
           /\ error = NoError
           /\ messages = InfoNothingToExport
           /\ outputs = {}

\* C10 amended: a stream of events without any StepSummary yields the empty
\* mapping without raising and the pipeline writes no output file; it terminates
\* normally with the informational message unless load_stimuli raises, and then
\* that error is the one surfaced.
C10_EmptyResult ==
    (telemetry = "present" /\ NoSummaryStream(file))
        => /\ per_step = EmptyDict
           /\ outputs = {}
           /\ rows = <<>>
           /\ error.raised_by \in {"none", "load_stimuli"}
           /\ Finished =>
                IF error = NoError
                THEN pc = "done" /\ messages = InfoNothingToExport
                ELSE pc = "raised" /\ stimulus \in {"missing", "present"} /\ messages = <<>>

\* A log of events without a StepSummary was read and main returned.
C10_Witness ==
    /\ pc = "done"
    /\ Len(buffer) >= 2
    /\ NoSummaryStream(file)
    /\ messages = InfoNothingToExport

\* ------------------------------------------- load_stimuli on its own
\* Longest stimulus file read when load_stimuli is followed line by line.
MaxStimCallLines == 3
\* Stimulus values are multiples of 0.5, so their float sums are exact.
StimCallValues == {5, 10}
StimCallDurations == {1, 3}
StimCallLines == {BlankLine, CorruptLine} \cup StimRecords(StimCallValues, StimCallDurations)

InitStim ==
    /\ pc = "load_stimuli"
    /\ telemetry = "present"
    /\ file = <<>>
    /\ per_step = EmptyDict
    /\ buffer = <<>>
    /\ ordered_events = <<>>
    /\ stimulus \in {"none", "missing", "present"}
    /\ stimuli = EmptyDict
    /\ rows = <<>>
    /\ outputs = {}
    /\ messages = <<>>
    /\ stim_file = <<>>
    /\ stats = <<>>
    /\ annotations = <<>>
    /\ error = NoError
    /\ first_run = <<>>
    /\ analyzer = <<>>
    /\ shuffler = <<>>

\* load_stimuli, lines 91-97: no path, a missing file, or the file is opened.
OpenStimuli ==
    /\ pc = "load_stimuli"
    /\ IF stimulus = "none"
       THEN pc' = "stimuli_returned" /\ UNCHANGED error
       ELSE IF stimulus = "missing"
       THEN pc' = "raised" /\ error' = Raised("FileNotFoundError", "load_stimuli")
       ELSE pc' = "reading_stimuli" /\ UNCHANGED error
    /\ stimuli' = EmptyDict
    /\ UNCHANGED <<telemetry, file, per_step, buffer, ordered_events, stimulus, rows,
                   outputs, messages, stim_file, stats, annotations>>
    /\ UNCHANGED elsewhere

\* load_stimuli, lines 100-109: the loop body on the next line.
ReadStimulusLine ==
    /\ pc = "reading_stimuli"
    /\ Len(stim_file) < MaxStimCallLines
    /\ \E line \in StimCallLines :
         LET st == StimulusLine([stimuli |-> stimuli, error |-> "none"], line)
         IN /\ stim_file' = Append(stim_file, line)
            /\ stimuli' = st.stimuli
            /\ IF st.error = "none"
               THEN UNCHANGED <<pc, error>>
               ELSE /\ pc' = "raised"
                    /\ error' = Raised(st.error, "load_stimuli")
    /\ UNCHANGED <<telemetry, file, per_step, buffer, ordered_events, stimulus, rows,
                   outputs, messages, stats, annotations>>
    /\ UNCHANGED elsewhere

\* load_stimuli, lines 112-115: the mapping is returned with plain dicts.
EndOfStimuli ==
    /\ pc = "reading_stimuli"
    /\ pc' = "stimuli_returned"
    /\ UNCHANGED <<telemetry, file, per_step, buffer, ordered_events, stimulus, stimuli,
                   rows, outputs, messages, stim_file, stats, annotations, error>>
    /\ UNCHANGED elsewhere

NextStim ==
    \/ OpenStimuli
    \/ ReadStimulusLine
    \/ EndOfStimuli

SpecStim == InitStim /\ [][NextStim]_vars

\* What the stimulus log says, stated over the lines read.
StimRecordIdx(f) == {i \in 1..Len(f) : f[i].type = "record"}
RECURSIVE ValueSum(_, _)
ValueSum(f, idx) ==
    IF idx = {} THEN 0
    ELSE LET i == CHOOSE x \in idx : TRUE
         IN f[i].value + ValueSum(f, idx \ {i})
StepValueSum(f, s) == ValueSum(f, {i \in StimRecordIdx(f) : f[i].step = s})
TopicValueSum(f, s, t) ==
    ValueSum(f, {i \in StimRecordIdx(f) : f[i].step = s /\ f[i].topic = t})
StepTopics(f, s) == {f[i].topic : i \in {j \in StimRecordIdx(f) : f[j].step = s}}

\* C11: the keys of the mapping of load_stimuli are exactly the steps named by the
\* records; the total of a step is the sum of the values of its records and
\* topics[t] the sum over its records of topic t; the duration plays no part, and
\* without a path the mapping is empty.
C11_StimulusTotals ==
    /\ stimulus = "none" => stimuli = EmptyDict
    /\ DOMAIN stimuli = {stim_file[i].step : i \in StimRecordIdx(stim_file)}
    /\ \A s \in DOMAIN stimuli :
         /\ stimuli[s].total = StepValueSum(stim_file, s)
         /\ DOMAIN stimuli[s].topics = StepTopics(stim_file, s)
         /\ \A t \in DOMAIN stimuli[s].topics :
              stimuli[s].topics[t] = TopicValueSum(stim_file, s, t)

\* A step with records of both topics and of different durations, and a second step.
C11_Witness ==
    /\ pc = "stimuli_returned"
    /\ Cardinality(DOMAIN stimuli) = 2
    /\ \E s \in DOMAIN stimuli :
         /\ DOMAIN stimuli[s].topics = StimTopics
         /\ \E i, j \in StimRecordIdx(stim_file) :
              /\ stim_file[i].step = s /\ stim_file[j].step = s
              /\ stim_file[i].duration # stim_file[j].duration


\* ----------------------------- build_step_rows: the run-wide aggregates
\* float(x) of a number the model carries in tenths (threat scores, stimulus
\* values): the double nearest to x / 10, as json.loads yields it.
FloatOfTenths(n) == FloatLit(n, 10)

Max2(a, b) == IF b > a THEN b ELSE a
Min2(a, b) == IF b < a THEN b ELSE a

_initialise_aggregates ==
    [step_count |-> 0,
     threat_sum |-> FloatZero,
     max_threat |-> FloatZero,
     cell_sum |-> FloatZero,
     min_cell |-> <<>>,          \* None
     max_cell |-> 0,
     total_replications |-> 0,
     total_signals |-> 0,
     total_lineage_shifts |-> 0,
     total_stimulus |-> FloatZero,
     signals_by_topic |-> EmptyDict,
     lineage_by_type |-> EmptyDict,
     lineage_by_type_keys |-> <<>>,
     stimuli_by_topic |-> EmptyDict]

\* Mutant of CounterUpdate: dict.update, the later count replaces the earlier.
CounterUpdate_Overwrite(counter, counts) ==
    [k \in DOMAIN counter \cup DOMAIN counts |->
        IF k \in DOMAIN counts THEN counts[k] ELSE counter[k]]

\* collections.Counter.update(mapping): the counts are added key by key.
CounterUpdate(counter, counts) ==
    [k \in DOMAIN counter \cup DOMAIN counts |->
        DictGet(counter, k, 0) + DictGet(counts, k, 0)]

\* The insertion order of the keys of a Counter after update(mapping): the
\* keys of the mapping not yet present are appended in the mapping's order.
RECURSIVE KeysUpdate(_, _, _)
KeysUpdate(keys, new_keys, i) ==
    IF i > Len(new_keys) THEN keys
    ELSE KeysUpdate(KeysPut(keys, new_keys[i]), new_keys, i + 1)

\* The loop over stim_entry["topics"] on the defaultdict(float).
StimuliByTopicAdd(totals, topics) ==
    [k \in DOMAIN totals \cup DOMAIN topics |->
        IF k \in DOMAIN topics
        THEN FloatAdd(DictGet(totals, k, FloatZero), FloatOfTenths(topics[k]))
        ELSE totals[k]]

\* Mutant of _accumulate_aggregates: min_cell is folded with min() from the
\* start, as if it had been initialised to 0 instead of None.
_accumulate_aggregates_MinFromZero(aggregates, metrics, stim_entry) ==
    LET threat == FloatOfTenths(metrics.threat_score)
        cell_count == metrics.cell_count
    IN [step_count |-> aggregates.step_count + 1,
        threat_sum |-> FloatAdd(aggregates.threat_sum, threat),
        max_threat |-> FloatMax(aggregates.max_threat, threat),
        cell_sum |-> FloatAdd(aggregates.cell_sum, FloatFromInt(cell_count)),
        min_cell |-> IF aggregates.min_cell = <<>> THEN <<Min2(0, cell_count)>>
                     ELSE <<Min2(aggregates.min_cell[1], cell_count)>>,
        max_cell |-> Max2(aggregates.max_cell, cell_count),
        total_replications |-> aggregates.total_replications + metrics.replications,
        total_signals |-> aggregates.total_signals + _sum_values(metrics.signals),
        total_lineage_shifts |->
            aggregates.total_lineage_shifts + _sum_values(metrics.lineage_shifts),
        total_stimulus |-> FloatAdd(aggregates.total_stimulus, FloatOfTenths(stim_entry.total)),
        signals_by_topic |-> CounterUpdate(aggregates.signals_by_topic, metrics.signals),
        lineage_by_type |-> CounterUpdate(aggregates.lineage_by_type, metrics.lineage_shifts),
        lineage_by_type_keys |->
            KeysUpdate(aggregates.lineage_by_type_keys, metrics.lineage_shifts_keys, 1),
        stimuli_by_topic |-> StimuliByTopicAdd(aggregates.stimuli_by_topic, stim_entry.topics)]

\* Mutant of _accumulate_aggregates: the per-topic signal counts are merged
\* with dict.update instead of Counter.update.
_accumulate_aggregates_SignalsOverwritten(aggregates, metrics, stim_entry) ==
    LET threat == FloatOfTenths(metrics.threat_score)
        cell_count == metrics.cell_count
    IN [step_count |-> aggregates.step_count + 1,
        threat_sum |-> FloatAdd(aggregates.threat_sum, threat),
        max_threat |-> FloatMax(aggregates.max_threat, threat),
        cell_sum |-> FloatAdd(aggregates.cell_sum, FloatFromInt(cell_count)),
        min_cell |-> IF aggregates.min_cell = <<>> THEN <<cell_count>>
                     ELSE <<Min2(aggregates.min_cell[1], cell_count)>>,
        max_cell |-> Max2(aggregates.max_cell, cell_count),
        total_replications |-> aggregates.total_replications + metrics.replications,
        total_signals |-> aggregates.total_signals + _sum_values(metrics.signals),
        total_lineage_shifts |->
            aggregates.total_lineage_shifts + _sum_values(metrics.lineage_shifts),
        total_stimulus |-> FloatAdd(aggregates.total_stimulus, FloatOfTenths(stim_entry.total)),
        signals_by_topic |-> CounterUpdate_Overwrite(aggregates.signals_by_topic, metrics.signals),
        lineage_by_type |-> CounterUpdate(aggregates.lineage_by_type, metrics.lineage_shifts),
        lineage_by_type_keys |->
            KeysUpdate(aggregates.lineage_by_type_keys, metrics.lineage_shifts_keys, 1),
        stimuli_by_topic |-> StimuliByTopicAdd(aggregates.stimuli_by_topic, stim_entry.topics)]

\* Mutant: a lineage counts once per step however often it shifted.
_accumulate_aggregates_ShiftsPerLineage(aggregates, metrics, stim_entry) ==
    LET threat == FloatOfTenths(metrics.threat_score)
        cell_count == metrics.cell_count
    IN [step_count |-> aggregates.step_count + 1,
        threat_sum |-> FloatAdd(aggregates.threat_sum, threat),
        max_threat |-> FloatMax(aggregates.max_threat, threat),
        cell_sum |-> FloatAdd(aggregates.cell_sum, FloatFromInt(cell_count)),
        min_cell |-> IF aggregates.min_cell = <<>> THEN <<cell_count>>
                     ELSE <<Min2(aggregates.min_cell[1], cell_count)>>,
        max_cell |-> Max2(aggregates.max_cell, cell_count),
        total_replications |-> aggregates.total_replications + metrics.replications,
        total_signals |-> aggregates.total_signals + _sum_values(metrics.signals),
        total_lineage_shifts |->
            aggregates.total_lineage_shifts + Cardinality(DOMAIN metrics.lineage_shifts),
        total_stimulus |-> FloatAdd(aggregates.total_stimulus, FloatOfTenths(stim_entry.total)),
        signals_by_topic |-> CounterUpdate(aggregates.signals_by_topic, metrics.signals),
        lineage_by_type |-> CounterUpdate(aggregates.lineage_by_type, metrics.lineage_shifts),
        lineage_by_type_keys |->
            KeysUpdate(aggregates.lineage_by_type_keys, metrics.lineage_shifts_keys, 1),
        stimuli_by_topic |-> StimuliByTopicAdd(aggregates.stimuli_by_topic, stim_entry.topics)]

\* _accumulate_aggregates: the aggregates after one more step.
_accumulate_aggregates(aggregates, metrics, stim_entry) ==
    LET threat == FloatOfTenths(metrics.threat_score)
        cell_count == metrics.cell_count
    IN [step_count |-> aggregates.step_count + 1,
        threat_sum |-> FloatAdd(aggregates.threat_sum, threat),
        max_threat |-> FloatMax(aggregates.max_threat, threat),
        cell_sum |-> FloatAdd(aggregates.cell_sum, FloatFromInt(cell_count)),
        min_cell |-> IF aggregates.min_cell = <<>> THEN <<cell_count>>
                     ELSE <<Min2(aggregates.min_cell[1], cell_count)>>,
        max_cell |-> Max2(aggregates.max_cell, cell_count),
        total_replications |-> aggregates.total_replications + metrics.replications,
        total_signals |-> aggregates.total_signals + _sum_values(metrics.signals),
        total_lineage_shifts |->
            aggregates.total_lineage_shifts + _sum_values(metrics.lineage_shifts),
        total_stimulus |-> FloatAdd(aggregates.total_stimulus, FloatOfTenths(stim_entry.total)),
        signals_by_topic |-> CounterUpdate(aggregates.signals_by_topic, metrics.signals),
        lineage_by_type |-> CounterUpdate(aggregates.lineage_by_type, metrics.lineage_shifts),
        lineage_by_type_keys |->
            KeysUpdate(aggregates.lineage_by_type_keys, metrics.lineage_shifts_keys, 1),
        stimuli_by_topic |-> StimuliByTopicAdd(aggregates.stimuli_by_topic, stim_entry.topics)]

\* _finalise_aggregates: the RunStats mapping.
_finalise_aggregates(aggregates) ==
    LET step_count == aggregates.step_count
        divisor == FloatFromInt(Max2(1, step_count))
    IN [step_count |-> step_count,
        avg_threat |-> FloatDiv(aggregates.threat_sum, divisor),
        max_threat |-> aggregates.max_threat,
        avg_cell_count |-> FloatDiv(aggregates.cell_sum, divisor),
        min_cell_count |-> IF aggregates.min_cell = <<>> THEN 0 ELSE aggregates.min_cell[1],
        max_cell_count |-> aggregates.max_cell,
        total_replications |-> aggregates.total_replications,
        total_signals |-> aggregates.total_signals,
        total_lineage_shifts |-> aggregates.total_lineage_shifts,
        total_stimulus |-> aggregates.total_stimulus,
        signals_by_topic |-> aggregates.signals_by_topic,
        lineage_by_type |-> aggregates.lineage_by_type,
        lineage_by_type_keys |-> aggregates.lineage_by_type_keys,
        stimuli_by_topic |-> aggregates.stimuli_by_topic]

NoStimulus == [total |-> 0, topics |-> EmptyDict]

\* The loop of build_step_rows over sorted(per_step), as far as the
\* aggregates go: order[i..] is still to be visited.
RECURSIVE AggregateFrom(_, _, _, _, _)
AggregateFrom(aggregates, perStep, stim, order, i) ==
    IF i > Len(order) THEN aggregates
    ELSE AggregateFrom(
            _accumulate_aggregates(aggregates, perStep[order[i]],
                                   DictGet(stim, order[i], NoStimulus)),
            perStep, stim, order, i + 1)

\* The RunStats build_step_rows returns next to the rows.
build_step_stats(perStep, stim) ==
    _finalise_aggregates(
        AggregateFrom(_initialise_aggregates, perStep, stim, SortedKeys(DOMAIN perStep), 1))

\* build_step_rows called at pc = at: the rows and the RunStats.
BuildStepRows(at) ==
    /\ pc = at
    /\ rows' = build_step_rows(per_step, stimuli)
    /\ stats' = build_step_stats(per_step, stimuli)
    /\ pc' = "rows_built"
    /\ UNCHANGED <<telemetry, file, per_step, buffer, ordered_events, stimulus, stimuli,
                   outputs, messages, stim_file, annotations, error>>
    /\ UNCHANGED elsewhere

\* ------------------------------------------ derive_harness_annotations
FloatOne == FloatFromInt(1)

\* _clamp with its default bounds 0.0 and 1.0.
_clamp(value) == FloatMax(FloatZero, FloatMin(FloatOne, value))

_compute_lineage_pressure(st) ==
    LET step_count == Max2(1, st.step_count)
        total_lineage_shifts == FloatFromInt(st.total_lineage_shifts)
        pressure == FloatDiv(total_lineage_shifts, FloatFromInt(step_count))
    IN _clamp(FloatDiv(pressure, FloatLit(6, 10)))

\* max(values, default=0) over the counts of a mapping.
MaxCount(counts) ==
    IF DOMAIN counts = {} THEN 0
    ELSE CHOOSE n \in {counts[k] : k \in DOMAIN counts} :
            \A k \in DOMAIN counts : counts[k] <= n

\* Mutant of _compute_lineage_focus_ratio: the least count is taken as dominant.
_compute_lineage_focus_ratio_LeastCount(st) ==
    LET total == st.total_lineage_shifts
        values == {st.lineage_by_type[k] : k \in DOMAIN st.lineage_by_type}
        dominant == IF values = {} THEN 0
                    ELSE CHOOSE n \in values : \A m \in values : n <= m
    IN IF total = 0 THEN FloatZero
       ELSE _clamp(FloatDiv(FloatFromInt(dominant), FloatFromInt(total)))

_compute_lineage_focus_ratio(st) ==
    LET total == st.total_lineage_shifts
        dominant == MaxCount(st.lineage_by_type)
    IN IF total = 0 THEN FloatZero
       ELSE _clamp(FloatDiv(FloatFromInt(dominant), FloatFromInt(total)))

_compute_suppression_component(st) ==
    LET step_count == FloatMax(FloatOne, FloatFromInt(st.step_count))
        reproduction_rate == FloatDiv(FloatFromInt(st.total_replications), step_count)
    IN FloatMax(FloatZero, FloatSub(FloatOne, FloatMin(reproduction_rate, FloatOne)))

_compute_cell_loss_component(st) ==
    LET max_cell == st.max_cell_count
        deficit == max_cell - st.min_cell_count
    IN IF max_cell = 0 THEN FloatZero
       ELSE _clamp(FloatDiv(FloatFromInt(deficit), FloatFromInt(max_cell)))

_compute_stimulus_component(st) ==
    LET step_count == FloatMax(FloatOne, FloatFromInt(st.step_count))
    IN _clamp(FloatDiv(st.total_stimulus, FloatMul(step_count, FloatLit(15, 10))))

\* _recommend_mutation, lines 406-412: the loop that finds the dominant
\* count, which starts from 0 and moves on a strictly greater count.
DominantCount(st) == Max2(0, MaxCount(st.lineage_by_type))

\* _recommend_mutation, lines 414-415: its local dominant_ratio.
DominantRatio(st) ==
    LET total_lineage == st.total_lineage_shifts
    IN IF total_lineage = 0 THEN FloatZero
       ELSE FloatDiv(FloatFromInt(DominantCount(st)), FloatFromInt(total_lineage))

\* _recommend_mutation, lines 406-412: the loop over lineage_by_type.items(),
\* in insertion order, from the pair (None, 0) kept in `best`.
RECURSIVE DominantFrom(_, _, _, _)
DominantFrom(counts, keys, i, best) ==
    IF i > Len(keys) THEN best
    ELSE IF counts[keys[i]] > best.count
    THEN DominantFrom(counts, keys, i + 1, [lineage |-> <<keys[i]>>, count |-> counts[keys[i]]])
    ELSE DominantFrom(counts, keys, i + 1, best)

\* dominant_lineage (<<>> for None) and dominant_count after the loop.
DominantLineage(st) ==
    DominantFrom(st.lineage_by_type, st.lineage_by_type_keys, 1,
                 [lineage |-> <<>>, count |-> 0])

\* _recommend_mutation, lines 431-434: the text of the lineage rule.
FocusAction(dominant_lineage) ==
    IF dominant_lineage # <<>> /\ dominant_lineage[1] # ""
    THEN <<"focus mutation pressure on the " \o dominant_lineage[1]
           \o " lineage to consolidate takeovers">>
    ELSE <<"focus mutation pressure on the highest-yield lineage to consolidate takeovers">>

\* Mutant of _recommend_mutation: the breach rules are tried before the
\* low-fitness rules.
_recommend_mutation_BreachFirst(st, fitness, breach) ==
    LET stimuli_by_topic == st.stimuli_by_topic
        step_count == FloatMax(FloatOne, FloatFromInt(st.step_count))
        reproductions == FloatDiv(FloatFromInt(st.total_replications), step_count)
        lineage_pressure == FloatDiv(FloatFromInt(st.total_lineage_shifts), step_count)
        dominant == DominantLineage(st)
        total_lineage == st.total_lineage_shifts
        dominant_ratio == IF total_lineage = 0 THEN FloatZero
                          ELSE FloatDiv(FloatFromInt(dominant.count),
                                        FloatFromInt(total_lineage))
        activator == DictGet(stimuli_by_topic, "activator", FloatZero)
        inhibitor == DictGet(stimuli_by_topic, "inhibitor", FloatZero)
    IN IF breach
       THEN IF st.total_signals < st.step_count
            THEN <<"extend breach window with sustained activator pulses post-impact">>
            ELSE <<"tighten attack cadence: alternate activator and inhibitor surges faster">>
       ELSE IF FloatLt(fitness, FloatLit(4, 10))
       THEN IF FloatLe(activator, inhibitor)
            THEN <<"increase activator spike amplitude and damp inhibitor recovery">>
            ELSE <<"inject cooperative decoys ahead of activator bursts to overwhelm defences">>
       ELSE IF FloatLt(lineage_pressure, FloatLit(2, 10))
       THEN <<"escalate lineage churn by targeting secondary cell lineages with staggered activator bursts">>
       ELSE IF FloatLt(dominant_ratio, FloatLit(5, 10)) /\ total_lineage > 3
       THEN FocusAction(dominant.lineage)
       ELSE IF FloatGt(reproductions, FloatLit(6, 10))
       THEN <<"slow defensive replication by scheduling inhibitor spikes before activator peaks">>
       ELSE IF FloatGt(inhibitor, activator) /\ FloatGt(activator, FloatZero)
       THEN <<"rebalance stimuli by boosting activator intensity relative to inhibitor damping">>
       ELSE <<>>

\* Mutant of _recommend_mutation: the low-fitness rules apply below 0.8.
_recommend_mutation_LowBelowPointEight(st, fitness, breach) ==
    LET stimuli_by_topic == st.stimuli_by_topic
        step_count == FloatMax(FloatOne, FloatFromInt(st.step_count))
        reproductions == FloatDiv(FloatFromInt(st.total_replications), step_count)
        lineage_pressure == FloatDiv(FloatFromInt(st.total_lineage_shifts), step_count)
        dominant == DominantLineage(st)
        total_lineage == st.total_lineage_shifts
        dominant_ratio == IF total_lineage = 0 THEN FloatZero
                          ELSE FloatDiv(FloatFromInt(dominant.count),
                                        FloatFromInt(total_lineage))
        activator == DictGet(stimuli_by_topic, "activator", FloatZero)
        inhibitor == DictGet(stimuli_by_topic, "inhibitor", FloatZero)
    IN IF FloatLt(fitness, FloatLit(8, 10))
       THEN IF FloatLe(activator, inhibitor)
            THEN <<"increase activator spike amplitude and damp inhibitor recovery">>
            ELSE <<"inject cooperative decoys ahead of activator bursts to overwhelm defences">>
       ELSE IF breach
       THEN IF st.total_signals < st.step_count
            THEN <<"extend breach window with sustained activator pulses post-impact">>
            ELSE <<"tighten attack cadence: alternate activator and inhibitor surges faster">>
       ELSE IF FloatLt(lineage_pressure, FloatLit(2, 10))
       THEN <<"escalate lineage churn by targeting secondary cell lineages with staggered activator bursts">>
       ELSE IF FloatLt(dominant_ratio, FloatLit(5, 10)) /\ total_lineage > 3
       THEN FocusAction(dominant.lineage)
       ELSE IF FloatGt(reproductions, FloatLit(6, 10))
       THEN <<"slow defensive replication by scheduling inhibitor spikes before activator peaks">>
       ELSE IF FloatGt(inhibitor, activator) /\ FloatGt(activator, FloatZero)
       THEN <<"rebalance stimuli by boosting activator intensity relative to inhibitor damping">>
       ELSE <<>>

\* _recommend_mutation: <<action>>, or <<>> for None.
_recommend_mutation(st, fitness, breach) ==
    LET stimuli_by_topic == st.stimuli_by_topic
        step_count == FloatMax(FloatOne, FloatFromInt(st.step_count))
        reproductions == FloatDiv(FloatFromInt(st.total_replications), step_count)
        lineage_pressure == FloatDiv(FloatFromInt(st.total_lineage_shifts), step_count)
        dominant == DominantLineage(st)
        total_lineage == st.total_lineage_shifts
        dominant_ratio == IF total_lineage = 0 THEN FloatZero
                          ELSE FloatDiv(FloatFromInt(dominant.count),
                                        FloatFromInt(total_lineage))
        activator == DictGet(stimuli_by_topic, "activator", FloatZero)
        inhibitor == DictGet(stimuli_by_topic, "inhibitor", FloatZero)
    IN IF FloatLt(fitness, FloatLit(4, 10))
       THEN IF FloatLe(activator, inhibitor)
            THEN <<"increase activator spike amplitude and damp inhibitor recovery">>
            ELSE <<"inject cooperative decoys ahead of activator bursts to overwhelm defences">>
       ELSE IF breach
       THEN IF st.total_signals < st.step_count
            THEN <<"extend breach window with sustained activator pulses post-impact">>
            ELSE <<"tighten attack cadence: alternate activator and inhibitor surges faster">>
       ELSE IF FloatLt(lineage_pressure, FloatLit(2, 10))
       THEN <<"escalate lineage churn by targeting secondary cell lineages with staggered activator bursts">>
       ELSE IF FloatLt(dominant_ratio, FloatLit(5, 10)) /\ total_lineage > 3
       THEN FocusAction(dominant.lineage)
       ELSE IF FloatGt(reproductions, FloatLit(6, 10))
       THEN <<"slow defensive replication by scheduling inhibitor spikes before activator peaks">>
       ELSE IF FloatGt(inhibitor, activator) /\ FloatGt(activator, FloatZero)
       THEN <<"rebalance stimuli by boosting activator intensity relative to inhibitor damping">>
       ELSE <<>>

\* derive_harness_annotations, line 273: `_recommend_mutation(...) or ""`.
MutationOrEmpty(mutation) == IF mutation = <<>> THEN "" ELSE mutation[1]

\* derive_harness_annotations, lines 273-281: the mapping returned, from the
\* scores computed before.
AnnotationOf(st, scores) ==
    [lineage_pressure |-> scores.lineage_pressure,
     lineage_focus_ratio |-> scores.lineage_focus_ratio,
     lineage_component |-> scores.lineage_component,
     fitness_score |-> scores.fitness_score,
     breach_observed |-> scores.breach_observed,
     recommended_mutation |->
         MutationOrEmpty(_recommend_mutation(st, scores.fitness_score,
                                             scores.breach_observed))]

\* What derive_harness_annotations returns for step_count 0 or empty stats.
DefaultAnnotation ==
    [lineage_pressure |-> FloatZero,
     lineage_focus_ratio |-> FloatZero,
     lineage_component |-> FloatZero,
     fitness_score |-> FloatZero,
     breach_observed |-> FALSE,
     recommended_mutation |-> ""]

\* Mutant of FitnessScores: the breach test leaves the cell loss out.
FitnessScores_NoCellLossBreach(st) ==
    LET lineage_pressure == _compute_lineage_pressure(st)
        focus_ratio == _compute_lineage_focus_ratio(st)
        lineage_component ==
            _clamp(FloatAdd(FloatMul(FloatLit(6, 10), lineage_pressure),
                            FloatMul(FloatLit(4, 10), focus_ratio)))
        suppression_component == _compute_suppression_component(st)
        cell_loss_component == _compute_cell_loss_component(st)
        stimulus_component == _compute_stimulus_component(st)
        fitness ==
            FloatAdd(FloatAdd(FloatAdd(FloatAdd(
                FloatMul(FloatLit(35, 100), _clamp(FloatDiv(st.avg_threat, FloatLit(15, 10)))),
                FloatMul(FloatLit(2, 10), suppression_component)),
                FloatMul(FloatLit(15, 100), cell_loss_component)),
                FloatMul(FloatLit(2, 10), lineage_component)),
                FloatMul(FloatLit(1, 10), stimulus_component))
        breach_observed ==
            \/ FloatGt(fitness, FloatLit(65, 100))
            \/ FloatGt(st.max_threat, FloatLit(11, 10))
            \/ FloatGt(lineage_component, FloatLit(8, 10))
    IN [lineage_pressure |-> lineage_pressure,
        lineage_focus_ratio |-> focus_ratio,
        lineage_component |-> lineage_component,
        fitness_score |-> fitness,
        breach_observed |-> breach_observed]

\* derive_harness_annotations, lines 251-271: the scores of a run with at
\* least one step.
FitnessScores(st) ==
    LET lineage_pressure == _compute_lineage_pressure(st)
        focus_ratio == _compute_lineage_focus_ratio(st)
        lineage_component ==
            _clamp(FloatAdd(FloatMul(FloatLit(6, 10), lineage_pressure),
                            FloatMul(FloatLit(4, 10), focus_ratio)))
        suppression_component == _compute_suppression_component(st)
        cell_loss_component == _compute_cell_loss_component(st)
        stimulus_component == _compute_stimulus_component(st)
        fitness ==
            FloatAdd(FloatAdd(FloatAdd(FloatAdd(
                FloatMul(FloatLit(35, 100), _clamp(FloatDiv(st.avg_threat, FloatLit(15, 10)))),
                FloatMul(FloatLit(2, 10), suppression_component)),
                FloatMul(FloatLit(15, 100), cell_loss_component)),
                FloatMul(FloatLit(2, 10), lineage_component)),
                FloatMul(FloatLit(1, 10), stimulus_component))
        breach_observed ==
            \/ FloatGt(fitness, FloatLit(65, 100))
            \/ FloatGt(st.max_threat, FloatLit(11, 10))
            \/ FloatGt(cell_loss_component, FloatLit(45, 100))
            \/ FloatGt(lineage_component, FloatLit(8, 10))
    IN [lineage_pressure |-> lineage_pressure,
        lineage_focus_ratio |-> focus_ratio,
        lineage_component |-> lineage_component,
        fitness_score |-> fitness,
        breach_observed |-> breach_observed]

\* Mutant of derive_harness_annotations: a run of no step is scored like any other.
derive_harness_annotations_NoEmptyGuard(st) ==
    AnnotationOf(st, FitnessScores(st))

\* derive_harness_annotations, lines 240-271: the default annotation, or the
\* scores of the run.
derive_harness_annotations(st) ==
    IF DOMAIN st = {} \/ st.step_count = 0 THEN DefaultAnnotation
    ELSE AnnotationOf(st, FitnessScores(st))

\* main, line 89.
DeriveAnnotations ==
    /\ pc = "rows_built"
    /\ annotations' = derive_harness_annotations(stats)
    /\ pc' = "annotated"
    /\ UNCHANGED <<telemetry, file, per_step, buffer, ordered_events, stimulus, stimuli,
                   rows, outputs, messages, stim_file, stats, error>>
    /\ UNCHANGED elsewhere

\* ---------------------------------------------------- apply_annotations
\* q, the floor of a quotient, moved to the nearest integer, ties to even;
\* c compares the remainder with half the divisor.
RoundHalfEven(q, c) ==
    IF c > 0 \/ (c = 0 /\ q # <<>> /\ q[1] % 2 = 1) THEN BigAdd(q, BigOne) ELSE q

RoundUnitsAt(u, k, q) ==
    RoundHalfEven(q, BigCmp(BigSub(u, BigShl(q, k)), BigShl(BigOne, k - 1)))

\* The integer nearest to u / 2^k, ties to even, for k > 0.
RoundUnits(u, k) == RoundUnitsAt(u, k, BigShr(u, k))

\* round(x, ndigits) of a float: the exact value of x is rounded to ndigits
\* decimal places, ties to even, and the double nearest to that decimal is
\* returned.
round(x, ndigits) ==
    IF x.s = 0 \/ x.e >= 0 THEN x
    ELSE FloatRound(x.s, RoundUnits(BigMul(x.m, BigFromNat(10 ^ ndigits)), -x.e),
                    BigFromNat(10 ^ ndigits), 0)

\* The keys row.update(...) sets in apply_annotations.
AnnotationColumns(annotation) ==
    [lineage_pressure |-> round(annotation.lineage_pressure, 6),
     lineage_focus_ratio |-> round(annotation.lineage_focus_ratio, 6),
     lineage_component |-> round(annotation.lineage_component, 6),
     fitness_score |-> round(annotation.fitness_score, 6),
     breach_observed |-> annotation.breach_observed,
     recommended_mutation |-> annotation.recommended_mutation]

\* Mutant of apply_annotations: only the first row is annotated with the
\* run's values, the rows after it get the default annotation.
apply_annotations_FirstRowOnly(rowSeq, annotation) ==
    [i \in 1..Len(rowSeq) |->
        IF i = 1 THEN AnnotationColumns(annotation) @@ rowSeq[i]
        ELSE AnnotationColumns(DefaultAnnotation) @@ rowSeq[i]]

\* apply_annotations: every row is updated in place with the same six keys.
apply_annotations(rowSeq, annotation) ==
    [i \in 1..Len(rowSeq) |-> AnnotationColumns(annotation) @@ rowSeq[i]]

\* main, line 90.
ApplyAnnotations ==
    /\ pc = "annotated"
    /\ rows' = apply_annotations(rows, annotations)
    /\ pc' = "annotations_applied"
    /\ UNCHANGED <<telemetry, file, per_step, buffer, ordered_events, stimulus, stimuli,
                   outputs, messages, stim_file, stats, annotations, error>>
    /\ UNCHANGED elsewhere

\* ------------------------ build_step_rows and derive_harness_annotations
\* ------------------------ on StepMetrics and StimulusEntry mappings
\* (threat_score in tenths, cell_count) of the StepSummary of a step.
StatsPayloads == {<<-5, 5>>, <<5, 2>>, <<20, 0>>, <<20, 5>>}

\* What _digest_buffer found in the buffer of a step.
StatsDigests ==
    {[replications |-> 0, signals |-> EmptyDict, signals_keys |-> <<>>,
      lineage_shifts |-> DictPut(EmptyDict, "X", 1), lineage_shifts_keys |-> <<"X">>],
     [replications |-> 1, signals |-> DictPut(EmptyDict, "alert", 1),
      signals_keys |-> <<"alert">>,
      lineage_shifts |-> EmptyDict, lineage_shifts_keys |-> <<>>],
     [replications |-> 2, signals |-> DictPut(DictPut(EmptyDict, "alert", 2), "heal", 1),
      signals_keys |-> <<"heal", "alert">>,
      lineage_shifts |-> DictPut(DictPut(EmptyDict, "X", 2), "Y", 1),
      lineage_shifts_keys |-> <<"Y", "X">>]}

StatsMetrics ==
    {[threat_score |-> p[1], cell_count |-> p[2], replications |-> g.replications,
      signals |-> g.signals, signals_keys |-> g.signals_keys,
      lineage_shifts |-> g.lineage_shifts, lineage_shifts_keys |-> g.lineage_shifts_keys] :
        p \in StatsPayloads, g \in StatsDigests}

\* Stimulus entries in tenths; the values are multiples of 0.5, so that the
\* sums load_stimuli forms in doubles are exact.
StatsStimulusEntries ==
    [high |-> [total |-> 30,
               topics |-> DictPut(DictPut(EmptyDict, "activator", 10), "inhibitor", 20)],
     low |-> [total |-> 5, topics |-> DictPut(EmptyDict, "activator", 5)]]

StatsStimuli ==
    {EmptyDict,
     DictPut(EmptyDict, 0, StatsStimulusEntries.high),
     DictPut(EmptyDict, 1, StatsStimulusEntries.low),
     DictPut(DictPut(EmptyDict, 0, StatsStimulusEntries.high), 1, StatsStimulusEntries.low)}

StatsPerStep == UNION {[S -> StatsMetrics] : S \in SUBSET Steps}

InitStats ==
    /\ pc = "stats_inputs"
    /\ telemetry = "present"
    /\ file = <<>>
    /\ per_step \in StatsPerStep
    /\ buffer = <<>>
    /\ ordered_events = <<>>
    /\ stimulus = "present"
    /\ stimuli \in StatsStimuli
    /\ rows = <<>>
    /\ outputs = {}
    /\ messages = <<>>
    /\ stim_file = <<>>
    /\ stats = <<>>
    /\ annotations = <<>>
    /\ error = NoError
    /\ first_run = <<>>
    /\ analyzer = <<>>
    /\ shuffler = <<>>

RowsOfMappings == BuildStepRows("stats_inputs")

NextStats ==
    \/ RowsOfMappings
    \/ DeriveAnnotations
    \/ ApplyAnnotations

SpecStats == InitStats /\ [][NextStats]_vars

\* ------------------------------------------- properties of the RunStats
StatsBuilt == pc \in {"rows_built", "annotated", "annotations_applied"}
ThreatOf(s) == FloatOfTenths(per_step[s].threat_score)
CellCounts == {per_step[s].cell_count : s \in DOMAIN per_step}

\* C13: for a non-empty StepMetrics mapping, max_threat is the maximum
\* threat_score over the steps of the mapping, whatever the sign of the scores.
C13_MaxThreatIsMaximum ==
    (StatsBuilt /\ DOMAIN per_step # {}) =>
        /\ \E s \in DOMAIN per_step : stats.max_threat = ThreatOf(s)
        /\ \A s \in DOMAIN per_step : FloatLe(ThreatOf(s), stats.max_threat)

\* C14: for a non-empty StepMetrics mapping, min_cell_count and max_cell_count
\* are the least and the greatest cell_count of the steps, so that
\* min_cell_count <= max_cell_count and min_cell_count is 0 only if some step
\* has cell_count 0.
C14_CellExtrema ==
    (StatsBuilt /\ DOMAIN per_step # {}) =>
        /\ stats.min_cell_count \in CellCounts
        /\ \A c \in CellCounts : stats.min_cell_count <= c
        /\ stats.max_cell_count \in CellCounts
        /\ \A c \in CellCounts : c <= stats.max_cell_count
        /\ stats.min_cell_count <= stats.max_cell_count
        /\ (stats.min_cell_count = 0 => 0 \in CellCounts)

\* Two steps with different positive cell counts have been folded.
C14_Witness ==
    /\ StatsBuilt
    /\ Cardinality(DOMAIN per_step) >= 2
    /\ 0 \notin CellCounts
    /\ stats.min_cell_count > 0
    /\ stats.min_cell_count < stats.max_cell_count

\* The sum over the steps in S of the count a step holds for key k in its
\* mapping `field` ("signals" or "lineage_shifts").
RECURSIVE CountOverSteps(_, _, _)
CountOverSteps(S, field, k) ==
    IF S = {} THEN 0
    ELSE LET s == CHOOSE x \in S : TRUE
         IN DictGet(per_step[s][field], k, 0) + CountOverSteps(S \ {s}, field, k)

KeysOverSteps(field) == UNION {DOMAIN per_step[s][field] : s \in DOMAIN per_step}

\* C15: signals_by_topic[t] and lineage_by_type[l] are the sums over all steps
\* of the step's count for t and l, so that their values add up to
\* total_signals and total_lineage_shifts.
C15_CategorySums ==
    StatsBuilt =>
        /\ DOMAIN stats.signals_by_topic = KeysOverSteps("signals")
        /\ \A t \in DOMAIN stats.signals_by_topic :
              stats.signals_by_topic[t] = CountOverSteps(DOMAIN per_step, "signals", t)
        /\ DOMAIN stats.lineage_by_type = KeysOverSteps("lineage_shifts")
        /\ \A l \in DOMAIN stats.lineage_by_type :
              stats.lineage_by_type[l] = CountOverSteps(DOMAIN per_step, "lineage_shifts", l)
        /\ _sum_values(stats.signals_by_topic) = stats.total_signals
        /\ _sum_values(stats.lineage_by_type) = stats.total_lineage_shifts

\* Two steps count the same topic differently; the run holds their sum.
C15_Witness ==
    /\ StatsBuilt
    /\ \E s \in DOMAIN per_step : \E u \in DOMAIN per_step :
          /\ "alert" \in DOMAIN per_step[s].signals
          /\ "alert" \in DOMAIN per_step[u].signals
          /\ per_step[s].signals["alert"] < per_step[u].signals["alert"]
          /\ stats.signals_by_topic["alert"] =
                per_step[s].signals["alert"] + per_step[u].signals["alert"]

\* The sum, in tenths, of the totals of the stimulus entries of the steps in S,
\* and of their values for topic t.
RECURSIVE StimulusTotalOver(_)
StimulusTotalOver(S) ==
    IF S = {} THEN 0
    ELSE LET s == CHOOSE x \in S : TRUE
         IN stimuli[s].total + StimulusTotalOver(S \ {s})

RECURSIVE StimulusTopicOver(_, _)
StimulusTopicOver(S, t) ==
    IF S = {} THEN 0
    ELSE LET s == CHOOSE x \in S : TRUE
         IN DictGet(stimuli[s].topics, t, 0) + StimulusTopicOver(S \ {s}, t)

\* C16: total_stimulus is the sum of StimulusEntry.total, and
\* stimuli_by_topic[t] the sum of StimulusEntry.topics[t], over all steps of
\* the stimulus mapping, whether or not the telemetry has a StepSummary for
\* the step.
C16_StimulusOverAllSteps ==
    StatsBuilt =>
        /\ stats.total_stimulus = FloatOfTenths(StimulusTotalOver(DOMAIN stimuli))
        /\ DOMAIN stats.stimuli_by_topic =
              UNION {DOMAIN stimuli[s].topics : s \in DOMAIN stimuli}
        /\ \A t \in DOMAIN stats.stimuli_by_topic :
              stats.stimuli_by_topic[t] = FloatOfTenths(StimulusTopicOver(DOMAIN stimuli, t))

\* ------------------------------------- properties of the annotation
InUnitInterval(x) == FloatLe(FloatZero, x) /\ FloatLe(x, FloatOne)

\* C17: for every RunStats the aggregator produces, fitness_score,
\* lineage_pressure, lineage_focus_ratio and lineage_component are within [0,1].
C17_ScoresInUnitInterval ==
    pc = "annotated" =>
        /\ InUnitInterval(annotations.fitness_score)
        /\ InUnitInterval(annotations.lineage_pressure)
        /\ InUnitInterval(annotations.lineage_focus_ratio)
        /\ InUnitInterval(annotations.lineage_component)

\* (max_cell_count - min_cell_count) / max_cell_count kept within [0,1],
\* and 0 when max_cell_count is 0.
CellLossOf(st) ==
    IF st.max_cell_count = 0 THEN FloatZero
    ELSE LET ratio == FloatDiv(FloatFromInt(st.max_cell_count - st.min_cell_count),
                               FloatFromInt(st.max_cell_count))
         IN IF FloatLt(ratio, FloatZero) THEN FloatZero
            ELSE IF FloatGt(ratio, FloatOne) THEN FloatOne
            ELSE ratio

FitnessBreach == FloatGt(annotations.fitness_score, FloatLit(65, 100))
ThreatBreach == FloatGt(stats.max_threat, FloatLit(11, 10))
CellLossBreach == FloatGt(CellLossOf(stats), FloatLit(45, 100))
LineageBreach == FloatGt(annotations.lineage_component, FloatLit(8, 10))

\* C18: with step_count > 0, breach_observed is true exactly when
\* fitness_score > 0.65 or max_threat > 1.1 or cell_loss_component > 0.45 or
\* lineage_component > 0.8.
C18_BreachIffDisjunction ==
    (pc = "annotated" /\ stats.step_count > 0) =>
        (annotations.breach_observed <=>
            (FitnessBreach \/ ThreatBreach \/ CellLossBreach \/ LineageBreach))

\* A breach that only the loss of cells accounts for.
C18_Witness ==
    /\ pc = "annotated"
    /\ stats.step_count > 0
    /\ annotations.breach_observed
    /\ CellLossBreach
    /\ ~FitnessBreach
    /\ ~ThreatBreach
    /\ ~LineageBreach

\* C19: with step_count 0 or empty stats, derive_harness_annotations returns
\* the default annotation (scores 0, no breach, no recommendation), and the
\* RunStats of an empty mapping has its means and extrema equal to 0, no
\* division by zero having taken place.
C19_EmptyRunDefaults ==
    /\ (StatsBuilt /\ DOMAIN per_step = {}) =>
          /\ stats.step_count = 0
          /\ stats.avg_threat = FloatZero
          /\ stats.avg_cell_count = FloatZero
          /\ stats.max_threat = FloatZero
          /\ stats.min_cell_count = 0
          /\ stats.max_cell_count = 0
    /\ (pc = "annotated" /\ stats.step_count = 0) =>
          /\ annotations.fitness_score = FloatZero
          /\ annotations.lineage_pressure = FloatZero
          /\ annotations.lineage_focus_ratio = FloatZero
          /\ annotations.lineage_component = FloatZero
          /\ annotations.breach_observed = FALSE
          /\ annotations.recommended_mutation = ""
          /\ derive_harness_annotations(<<>>) = annotations

\* An empty StepMetrics mapping has been annotated, with stimuli at hand.
C19_Witness ==
    /\ pc = "annotated"
    /\ DOMAIN per_step = {}
    /\ DOMAIN stimuli # {}
    /\ stats.step_count = 0

LargestLineageCount ==
    CHOOSE n \in {stats.lineage_by_type[l] : l \in DOMAIN stats.lineage_by_type} :
        \A l \in DOMAIN stats.lineage_by_type : stats.lineage_by_type[l] <= n

\* C20: when total_lineage_shifts is 0, lineage_focus_ratio and the
\* dominant_ratio of the recommendation policy are exactly 0 and no division
\* takes place; when it is positive, both are the largest value of
\* lineage_by_type divided by total_lineage_shifts.
C20_FocusAndDominantRatio ==
    pc = "annotated" =>
        IF stats.total_lineage_shifts = 0
        THEN /\ annotations.lineage_focus_ratio = FloatZero
             /\ DominantRatio(stats) = FloatZero
        ELSE LET ratio == FloatDiv(FloatFromInt(LargestLineageCount),
                                   FloatFromInt(stats.total_lineage_shifts))
             IN /\ annotations.lineage_focus_ratio = ratio
                /\ DominantRatio(stats) = ratio

\* Two lineages with different counts: the ratio is neither 0 nor 1.
C20_Witness ==
    /\ pc = "annotated"
    /\ Cardinality(DOMAIN stats.lineage_by_type) = 2
    /\ stats.total_lineage_shifts > LargestLineageCount
    /\ FloatLt(FloatZero, annotations.lineage_focus_ratio)
    /\ FloatLt(annotations.lineage_focus_ratio, FloatOne)
    /\ DominantRatio(stats) = annotations.lineage_focus_ratio

\* ------------------- build_step_rows on a loaded telemetry file
MaxRowLines == 3
ReadRowLine == ReadLine(MaxRowLines)
RowsOfTelemetry == BuildStepRows("telemetry_loaded")

NextRows ==
    \/ OpenTelemetry
    \/ ReadRowLine
    \/ EndOfFile
    \/ RowsOfTelemetry

SpecRows == Init /\ [][NextRows]_vars

RowSteps == {rows[i].step : i \in 1..Len(rows)}

\* C12: step_count is the number of distinct step values carried by the
\* StepSummary events of the log (not the number of StepSummary events), and
\* build_step_rows yields exactly one row per distinct step, in ascending
\* step order.
C12_StepCount ==
    pc = "rows_built" =>
        LET distinct == {file[i].event.step : i \in SummaryIdx(file)}
        IN /\ stats.step_count = Cardinality(distinct)
           /\ Len(rows) = Cardinality(distinct)
           /\ RowSteps = distinct
           /\ \A i \in 1..Len(rows) : \A j \in 1..Len(rows) :
                  i < j => rows[i].step < rows[j].step

\* Three StepSummary events over two steps, the larger step logged first.
C12_Witness ==
    /\ pc = "rows_built"
    /\ Cardinality(SummaryIdx(file)) = 3
    /\ stats.step_count = 2
    /\ Len(rows) = 2
    /\ file[1].event.step > file[2].event.step

\* ------------------------------------------------ _recommend_mutation
\* The lineage counters of the RunStats tried: none, one lineage, a tie of
\* two lineages ahead of a third, and one lineage far ahead.
RecommendLineages ==
    {[counts |-> EmptyDict, keys |-> <<>>],
     [counts |-> DictPut(EmptyDict, "X", 1), keys |-> <<"X">>],
     [counts |-> DictPut(DictPut(DictPut(EmptyDict, "X", 2), "Y", 2), "Z", 1),
      keys |-> <<"Y", "X", "Z">>],
     [counts |-> DictPut(DictPut(EmptyDict, "X", 4), "Y", 1), keys |-> <<"X", "Y">>]}

\* The stimuli_by_topic mappings tried.
RecommendStimuli ==
    {EmptyDict,
     DictPut(DictPut(EmptyDict, "activator", FloatLit(1, 10)), "inhibitor", FloatLit(2, 10)),
     DictPut(DictPut(EmptyDict, "activator", FloatLit(2, 10)), "inhibitor", FloatLit(1, 10)),
     DictPut(EmptyDict, "inhibitor", FloatLit(2, 10))}

\* The fields of a RunStats that _recommend_mutation reads.
RecommendStats ==
    {[step_count |-> n,
      total_replications |-> r,
      total_signals |-> g,
      total_lineage_shifts |-> _sum_values(l.counts),
      lineage_by_type |-> l.counts,
      lineage_by_type_keys |-> l.keys,
      stimuli_by_topic |-> t] :
        n \in {1, 6}, r \in {0, 4}, g \in {0, 7}, l \in RecommendLineages,
        t \in RecommendStimuli}

\* The fitness values tried: below, at and above the threshold of the first rule.
RecommendFitness == {FloatLit(3, 10), FloatLit(4, 10), FloatLit(7, 10)}

\* derive_harness_annotations at line 273: stats, fitness and breach_observed.
InitRecommend ==
    /\ pc = "scores_computed"
    /\ telemetry = "present"
    /\ file = <<>>
    /\ per_step = EmptyDict
    /\ buffer = <<>>
    /\ ordered_events = <<>>
    /\ stimulus = "present"
    /\ stimuli = EmptyDict
    /\ rows = <<>>
    /\ outputs = {}
    /\ messages = <<>>
    /\ stim_file = <<>>
    /\ stats \in RecommendStats
    /\ annotations \in [fitness_score : RecommendFitness, breach_observed : BOOLEAN]
    /\ error = NoError
    /\ first_run = <<>>
    /\ analyzer = <<>>
    /\ shuffler = <<>>

\* derive_harness_annotations, line 273.
RecommendMutation ==
    /\ pc = "scores_computed"
    /\ annotations' =
           [fitness_score |-> annotations.fitness_score,
            breach_observed |-> annotations.breach_observed,
            recommended_mutation |->
                MutationOrEmpty(_recommend_mutation(stats, annotations.fitness_score,
                                                    annotations.breach_observed))]
    /\ pc' = "recommended"
    /\ UNCHANGED <<telemetry, file, per_step, buffer, ordered_events, stimulus, stimuli,
                   rows, outputs, messages, stim_file, stats, error>>
    /\ UNCHANGED elsewhere

NextRecommend == RecommendMutation

SpecRecommend == InitRecommend /\ [][NextRecommend]_vars

\* The rule table, row by row, over the quantities it names.
TableActivator == DictGet(stats.stimuli_by_topic, "activator", FloatZero)
TableInhibitor == DictGet(stats.stimuli_by_topic, "inhibitor", FloatZero)
TableReproductions ==
    FloatDiv(FloatFromInt(stats.total_replications), FloatFromInt(stats.step_count))
TableRawLineagePressure ==
    FloatDiv(FloatFromInt(stats.total_lineage_shifts), FloatFromInt(stats.step_count))
TableDominantRatio ==
    IF stats.total_lineage_shifts = 0 THEN FloatZero
    ELSE FloatDiv(FloatFromInt(LargestLineageCount), FloatFromInt(stats.total_lineage_shifts))
RuleHolds(n) ==
    CASE n = 1 -> FloatLt(annotations.fitness_score, FloatLit(4, 10))
                  /\ FloatLe(TableActivator, TableInhibitor)
      [] n = 2 -> FloatLt(annotations.fitness_score, FloatLit(4, 10))
                  /\ FloatGt(TableActivator, TableInhibitor)
      [] n = 3 -> annotations.breach_observed /\ stats.total_signals < stats.step_count
      [] n = 4 -> annotations.breach_observed
      [] n = 5 -> FloatLt(TableRawLineagePressure, FloatLit(2, 10))
      [] n = 6 -> FloatLt(TableDominantRatio, FloatLit(5, 10))
                  /\ stats.total_lineage_shifts > 3
      [] n = 7 -> FloatGt(TableReproductions, FloatLit(6, 10))
      [] n = 8 -> FloatGt(TableInhibitor, TableActivator)
                  /\ FloatGt(TableActivator, FloatZero)
\* The lineages whose count no other lineage exceeds.
LargestLineages ==
    {l \in DOMAIN stats.lineage_by_type : stats.lineage_by_type[l] = LargestLineageCount}
RuleActions(n) ==
    CASE n = 1 -> {"increase activator spike amplitude and damp inhibitor recovery"}
      [] n = 2 -> {"inject cooperative decoys ahead of activator bursts to overwhelm defences"}
      [] n = 3 -> {"extend breach window with sustained activator pulses post-impact"}
      [] n = 4 -> {"tighten attack cadence: alternate activator and inhibitor surges faster"}
      [] n = 5 -> {"escalate lineage churn by targeting secondary cell lineages with staggered activator bursts"}
      [] n = 6 -> {"focus mutation pressure on the " \o l \o " lineage to consolidate takeovers" :
                      l \in LargestLineages}
      [] n = 7 -> {"slow defensive replication by scheduling inhibitor spikes before activator peaks"}
      [] n = 8 -> {"rebalance stimuli by boosting activator intensity relative to inhibitor damping"}
MatchingRules == {n \in 1..8 : RuleHolds(n)}
FirstRule == CHOOSE n \in MatchingRules : \A m \in MatchingRules : n <= m

\* C21: for every RunStats with step_count > 0 and every fitness and breach
\* value, _recommend_mutation returns the action of the first row of the rule
\* table, in order 1 to 8, whose condition holds, and the annotation stores the
\* empty string exactly when no row's condition holds.
C21_FirstMatchingRule ==
    (pc = "recommended" /\ stats.step_count > 0) =>
        /\ MatchingRules # {} => annotations.recommended_mutation \in RuleActions(FirstRule)
        /\ MatchingRules = {} <=> annotations.recommended_mutation = ""

\* Rule 6 is the first matching row while rules 7 and 8 match as well.
C21_Witness ==
    /\ pc = "recommended"
    /\ stats.step_count > 0
    /\ MatchingRules # {}
    /\ FirstRule = 6
    /\ {7, 8} \subseteq MatchingRules
    /\ annotations.recommended_mutation
           = "focus mutation pressure on the Y lineage to consolidate takeovers"

\* The scenario of the first rule: activator 0.1 and inhibitor 0.2.
ScenarioStimuli ==
    /\ DOMAIN stats.stimuli_by_topic = {"activator", "inhibitor"}
    /\ stats.stimuli_by_topic["activator"] = FloatLit(1, 10)
    /\ stats.stimuli_by_topic["inhibitor"] = FloatLit(2, 10)
ActivatorAmplitude == "increase activator spike amplitude and damp inhibitor recovery"

\* C22 as stated: with fitness_score = 0.7, activator = 0.1 and inhibitor = 0.2
\* rule 1 fires and the recommendation is the activator-amplitude one, whatever
\* breach_observed and the other statistics are.
C22_RuleOneAtPointSeven ==
    (pc = "recommended" /\ ScenarioStimuli /\ annotations.fitness_score = FloatLit(7, 10))
        => annotations.recommended_mutation = ActivatorAmplitude

\* C22: with activator = 0.1 and inhibitor = 0.2, rule 1 fires and yields the
\* activator-amplitude recommendation, whatever breach_observed and the other
\* statistics are, when fitness_score is below 0.4 (0.3); with fitness_score =
\* 0.7 rule 1 does not fire and the recommendation is that of the first matching
\* rule among 3 to 8, or none.
C22_RuleOneBelowThreshold ==
    (pc = "recommended" /\ ScenarioStimuli) =>
        /\ annotations.fitness_score = FloatLit(3, 10)
              => annotations.recommended_mutation = ActivatorAmplitude
        /\ annotations.fitness_score = FloatLit(7, 10)
              => /\ annotations.recommended_mutation # ActivatorAmplitude
                 /\ MatchingRules \subseteq 3..8
                 /\ MatchingRules # {}
                       => annotations.recommended_mutation \in RuleActions(FirstRule)
                 /\ MatchingRules = {} => annotations.recommended_mutation = ""

\* The scenario with fitness 0.7 and a breach: rule 3 decides.
C22_Witness ==
    /\ pc = "recommended"
    /\ ScenarioStimuli
    /\ annotations.fitness_score = FloatLit(7, 10)
    /\ annotations.breach_observed
    /\ annotations.recommended_mutation
           = "extend breach window with sustained activator pulses post-impact"

\* ------------------------------------------ properties of the annotated rows
\* |x - y| is at most half a unit of the sixth decimal place (with the slack
\* of the last conversion to a double).
WithinHalfMillionth(x, y) ==
    /\ FloatLe(FloatSub(x, y), FloatLit(6, 10000000))
    /\ FloatLe(FloatSub(y, x), FloatLit(6, 10000000))

\* C29: after apply_annotations every row carries the same values of
\* lineage_pressure, lineage_focus_ratio, lineage_component, fitness_score,
\* breach_observed and recommended_mutation, those of the run-level annotation
\* (the four scores to six decimal places), and the per-step fields of a row
\* are those built from the StepMetrics of its step.
C29_RowsCarryAnnotation ==
    pc = "annotations_applied" =>
        /\ \A i, j \in 1..Len(rows) :
              \A c \in {"lineage_pressure", "lineage_focus_ratio", "lineage_component",
                        "fitness_score", "breach_observed", "recommended_mutation"} :
                  rows[i][c] = rows[j][c]
        /\ \A i \in 1..Len(rows) :
              /\ \A c \in {"lineage_pressure", "lineage_focus_ratio", "lineage_component",
                           "fitness_score"} :
                    WithinHalfMillionth(rows[i][c], annotations[c])
              /\ rows[i].breach_observed = annotations.breach_observed
              /\ rows[i].recommended_mutation = annotations.recommended_mutation
        /\ Len(rows) = Cardinality(DOMAIN per_step)
        /\ \A i \in 1..Len(rows) :
              /\ rows[i].step \in DOMAIN per_step
              /\ rows[i].threat_score = per_step[rows[i].step].threat_score
              /\ rows[i].cell_count = per_step[rows[i].step].cell_count
              /\ rows[i].replications = per_step[rows[i].step].replications
              /\ rows[i].signals_total = _sum_values(per_step[rows[i].step].signals)
              /\ rows[i].lineage_shifts_total
                     = _sum_values(per_step[rows[i].step].lineage_shifts)

\* Two rows with different per-step fields and a score that rounding changed.
C29_Witness ==
    /\ pc = "annotations_applied"
    /\ Len(rows) = 2
    /\ rows[1].replications # rows[2].replications
    /\ rows[1].threat_score # rows[2].threat_score
    /\ rows[1].fitness_score # annotations.fitness_score
    /\ rows[2].recommended_mutation # ""
    /\ rows[2].breach_observed

\* ------------------------------------------- the pipeline run twice
MaxTwiceLines == 5

\* The lines of the telemetry file of the two runs: shifts of four lineages
\* and the StepSummary of one step.
TwiceLineages == {"W", "X", "Y", "Z"}
TwiceLines ==
    {[type |-> "record", timestamp_ms |-> 100, event |-> e] :
        e \in {[kind |-> "LineageShift", lineage |-> l] : l \in TwiceLineages}
              \cup {[kind |-> "StepSummary", step |-> 0, threat_score |-> 5, cell_count |-> 3]}}

\* The stimulus path and file of the two runs: one record for step 0.
TwiceStimuli ==
    {<<"present", <<[type |-> "record", step |-> 0, topic |-> "activator",
                     value |-> 5, duration |-> 2]>> >>}

ReadFirstRun == first_run = <<>> /\ ReadLineFrom(TwiceLines, MaxTwiceLines)
EndFirstRun == first_run = <<>> /\ EndOfFile

\* The second run reads the lines the first run read.
ReadAgain ==
    /\ first_run # <<>>
    /\ Len(file) < Len(first_run.file)
    /\ ReadLineFrom({first_run.file[Len(file) + 1]}, Len(first_run.file))
EndAgain ==
    /\ first_run # <<>>
    /\ Len(file) = Len(first_run.file)
    /\ EndOfFile

\* main, line 82, on the stimulus file of the run; the second run is given
\* the path and the file of the first.
LoadStimuliFile ==
    /\ pc = "telemetry_loaded"
    /\ \E choice \in (IF first_run = <<>> THEN TwiceStimuli ELSE {<<stimulus, stim_file>>}) :
         /\ stimulus' = choice[1]
         /\ stim_file' = choice[2]
         /\ stimuli' = load_stimuli(choice[1], choice[2]).stimuli
    /\ pc' = "stimuli_loaded"
    /\ UNCHANGED <<telemetry, file, per_step, buffer, ordered_events, rows, outputs,
                   messages, stats, annotations, first_run, analyzer, shuffler, error>>

RowsOfRun == per_step # EmptyDict /\ BuildStepRows("stimuli_loaded")

\* main is entered a second time, on the same telemetry and stimulus files,
\* with whatever the first run left behind.
RunAgain ==
    /\ pc = "annotations_applied"
    /\ first_run = <<>>
    /\ first_run' = [file |-> file, per_step |-> per_step, stimuli |-> stimuli,
                     rows |-> rows, stats |-> stats, annotations |-> annotations]
    /\ file' = <<>>
    /\ pc' = "load_telemetry"
    /\ UNCHANGED <<telemetry, per_step, buffer, ordered_events, stimulus, stimuli, rows,
                   outputs, messages, stim_file, stats, annotations, analyzer, shuffler,
                   error>>

InitTwice ==
    /\ pc = "load_telemetry"
    /\ telemetry = "present"
    /\ file = <<>>
    /\ per_step = EmptyDict
    /\ buffer = <<>>
    /\ ordered_events = <<>>
    /\ stimulus = "unread"
    /\ stimuli = EmptyDict
    /\ rows = <<>>
    /\ outputs = {}
    /\ messages = <<>>
    /\ stim_file = <<>>
    /\ stats = <<>>
    /\ annotations = <<>>
    /\ first_run = <<>>
    /\ analyzer = <<>>
    /\ shuffler = <<>>
    /\ error = NoError

NextTwice ==
    \/ OpenTelemetry
    \/ ReadFirstRun
    \/ EndFirstRun
    \/ LoadStimuliFile
    \/ NothingToExport
    \/ RowsOfRun
    \/ DeriveAnnotations
    \/ ApplyAnnotations
    \/ RunAgain
    \/ ReadAgain
    \/ EndAgain

SpecTwice == InitTwice /\ [][NextTwice]_vars

SecondRunDone == first_run # <<>> /\ pc = "annotations_applied"

MaxPaths == 3

\* load_records(path, limit), lines 41-49: the (timestamp, event) pairs of the
\* lines before the limit (<<>> for None, <<n>> for n), blank lines skipped;
\* json.loads raises on a corrupt line.
RECURSIVE RecordsFrom(_, _, _, _)
RecordsFrom(acc, lines, limit, i) ==
    IF acc.error # "none" \/ i > Len(lines) THEN acc
    ELSE IF limit # <<>> /\ i - 1 >= limit[1] THEN acc
    ELSE IF lines[i].type = "blank" THEN RecordsFrom(acc, lines, limit, i + 1)
    ELSE IF lines[i].type = "corrupt"
    THEN RecordsFrom([acc EXCEPT !.error = "JSONDecodeError"], lines, limit, i + 1)
    ELSE RecordsFrom([acc EXCEPT !.events =
                                     Append(@, <<lines[i].timestamp_ms, lines[i].event>>)],
                     lines, limit, i + 1)

load_records(lines, limit) == RecordsFrom([events |-> <<>>, error |-> "none"], lines, limit, 1)

\* summarize, lines 56-64: one iteration of the loop over the events.
SummarizeEvent(acc, event) ==
    IF event.kind = "CellReplicated"
    THEN [acc EXCEPT !.replications = @ + 1]
    ELSE IF event.kind = "LineageShift"
    THEN [acc EXCEPT !.lineage_shifts = @ + 1,
                     !.lineage_counts = CounterAdd(@, event.lineage, 1)]
    ELSE IF event.kind = "SignalEmitted"
    THEN [acc EXCEPT !.signals = @ + 1]
    ELSE acc

RECURSIVE SummarizeFrom(_, _, _)
SummarizeFrom(acc, events, i) ==
    IF i > Len(events) THEN acc
    ELSE SummarizeFrom(SummarizeEvent(acc, events[i][2]), events, i + 1)

summarize(events) ==
    SummarizeFrom([replications |-> 0, lineage_shifts |-> 0, signals |-> 0,
                   lineage_counts |-> EmptyDict], events, 1)

\* Mutant of MergeSummary: the totals are merged with dict.update.
MergeSummary_Overwrite(locals, summary) ==
    [locals EXCEPT
        !.overall_counts =
            CounterUpdate_Overwrite(@, [replications |-> summary.replications,
                                        lineage_shifts |-> summary.lineage_shifts,
                                        signals |-> summary.signals]),
        !.lineage_totals = CounterUpdate_Overwrite(@, summary.lineage_counts)]

\* main, lines 194-201: the two Counter.update calls.
MergeSummary(locals, summary) ==
    [locals EXCEPT
        !.overall_counts =
            CounterUpdate(@, [replications |-> summary.replications,
                              lineage_shifts |-> summary.lineage_shifts,
                              signals |-> summary.signals]),
        !.lineage_totals = CounterUpdate(@, summary.lineage_counts)]

\* main, lines 175-203: the body of the loop for one path, a missing file
\* ("missing") or the lines of a file.
AnalyzePath(locals, path, limit) ==
    IF locals.error # "none" THEN locals
    ELSE IF path = <<"missing">>
    THEN [locals EXCEPT !.messages = Append(@, "Skipping missing file")]
    ELSE IF load_records(path, limit).error # "none"
    THEN [locals EXCEPT !.error = load_records(path, limit).error]
    ELSE MergeSummary([locals EXCEPT !.messages = Append(@, "Telemetry Summary")],
                      summarize(load_records(path, limit).events))

\* main, lines 171-173: the locals before the loop.
AnalyzeInit ==
    [overall_counts |-> EmptyDict, lineage_totals |-> EmptyDict, messages |-> <<>>,
     error |-> "none"]

RECURSIVE AnalyzeFrom(_, _, _, _)
AnalyzeFrom(locals, paths, limit, i) ==
    IF i > Len(paths) THEN locals
    ELSE AnalyzeFrom(AnalyzePath(locals, paths[i], limit), paths, limit, i + 1)

\* The loop of main over args.paths.
AnalyzeAll(paths, limit) == AnalyzeFrom(AnalyzeInit, paths, limit, 1)

\* The telemetry files given to the script: a missing one, an empty one and
\* files with events of every kind, a blank line and a corrupt line.
AnalyzerFiles ==
    {<<"missing">>,
     <<>>,
     <<[type |-> "record", timestamp_ms |-> 100, event |-> [kind |-> "CellReplicated"]],
       [type |-> "record", timestamp_ms |-> 100,
        event |-> [kind |-> "LineageShift", lineage |-> "X"]]>>,
     <<[type |-> "record", timestamp_ms |-> 100,
        event |-> [kind |-> "LineageShift", lineage |-> "Y"]],
       [type |-> "record", timestamp_ms |-> 100,
        event |-> [kind |-> "LineageShift", lineage |-> "X"]],
       [type |-> "record", timestamp_ms |-> 100,
        event |-> [kind |-> "SignalEmitted", topic |-> "alert"]]>>,
     <<BlankLine,
       [type |-> "record", timestamp_ms |-> 100,
        event |-> [kind |-> "StepSummary", step |-> 0, threat_score |-> 5, cell_count |-> 3]],
       [type |-> "record", timestamp_ms |-> 100, event |-> [kind |-> "CellReplicated"]]>>,
     <<[type |-> "record", timestamp_ms |-> 100,
        event |-> [kind |-> "SignalEmitted", topic |-> "heal"]],
       CorruptLine>>}

\* args.limit: None, or a cap on the lines read from each file.
AnalyzerLimits == {<<>>, <<1>>}

InitAnalyze ==
    /\ pc = "analyzing"
    /\ telemetry = "present"
    /\ file = <<>>
    /\ per_step = EmptyDict
    /\ buffer = <<>>
    /\ ordered_events = <<>>
    /\ stimulus = "unread"
    /\ stimuli = EmptyDict
    /\ rows = <<>>
    /\ outputs = {}
    /\ messages = <<>>
    /\ stim_file = <<>>
    /\ stats = <<>>
    /\ annotations = <<>>
    /\ first_run = <<>>
    /\ \E paths \in SeqsUpTo(AnalyzerFiles, MaxPaths) \ {<<>>} :
       \E limit \in AnalyzerLimits :
          analyzer = [paths |-> paths, limit |-> limit, visited |-> 0,
                      overall_counts |-> AnalyzeInit.overall_counts,
                      lineage_totals |-> AnalyzeInit.lineage_totals,
                      messages |-> AnalyzeInit.messages,
                      error |-> AnalyzeInit.error]
    /\ shuffler = <<>>
    /\ error = NoError

\* main, lines 175-203: the loop body on the next path.
AnalyzeNextPath ==
    /\ pc = "analyzing"
    /\ analyzer.visited < Len(analyzer.paths)
    /\ analyzer' = [AnalyzePath(analyzer, analyzer.paths[analyzer.visited + 1],
                                analyzer.limit)
                    EXCEPT !.visited = @ + 1]
    /\ IF analyzer'.error = "none"
       THEN UNCHANGED <<pc, error>>
       ELSE /\ pc' = "raised"
            /\ error' = Raised(analyzer'.error, "load_records")
    /\ UNCHANGED <<telemetry, file, per_step, buffer, ordered_events, stimulus, stimuli,
                   rows, outputs, messages, stim_file, stats, annotations, first_run,
                   shuffler>>

\* main, lines 205-215: the aggregate summary is printed.
AggregateSummary ==
    /\ pc = "analyzing"
    /\ analyzer.visited = Len(analyzer.paths)
    /\ analyzer' = [analyzer EXCEPT !.messages = Append(@, "Aggregate Summary")]
    /\ pc' = "analyzed"
    /\ UNCHANGED <<telemetry, file, per_step, buffer, ordered_events, stimulus, stimuli,
                   rows, outputs, messages, stim_file, stats, annotations, first_run,
                   shuffler, error>>

NextAnalyze ==
    \/ AnalyzeNextPath
    \/ AggregateSummary

SpecAnalyze == InitAnalyze /\ [][NextAnalyze]_vars

\* The lines of a file that load_records turns into events.
ReadIdx(path, limit) ==
    IF path = <<"missing">> THEN {}
    ELSE {i \in 1..Len(path) : path[i].type = "record" /\ (limit = <<>> \/ i <= limit[1])}
\* The number of events of a kind in a file, and of shifts of a lineage.
FileKindCount(path, limit, kind) ==
    Cardinality({i \in ReadIdx(path, limit) : path[i].event.kind = kind})
FileLineageCount(path, limit, l) ==
    Cardinality({i \in ReadIdx(path, limit) :
                    path[i].event.kind = "LineageShift" /\ path[i].event.lineage = l})
RECURSIVE SumOfSeq(_, _)
SumOfSeq(seq, i) == IF i > Len(seq) THEN 0 ELSE seq[i] + SumOfSeq(seq, i + 1)
\* The sum over the files of the run of the per-file count of a kind.
KindTotal(kind) ==
    SumOfSeq([n \in 1..Len(analyzer.paths) |->
                 FileKindCount(analyzer.paths[n], analyzer.limit, kind)], 1)
LineageTotal(l) ==
    SumOfSeq([n \in 1..Len(analyzer.paths) |->
                 FileLineageCount(analyzer.paths[n], analyzer.limit, l)], 1)
\* Counter[key]: 0 for a key never set.
CounterGet(counter, key) == DictGet(counter, key, 0)
Reversed(seq) == [i \in 1..Len(seq) |-> seq[Len(seq) + 1 - i]]

\* C24: the merged totals (replications, lineage shifts, signals and
\* per-lineage counts) of a run over several files are the field-wise sums of
\* the per-file statistics, and the same files processed in the opposite order
\* give the same totals.
C24_MergeOrderImmaterial ==
    pc = "analyzed" =>
        /\ CounterGet(analyzer.overall_counts, "replications") = KindTotal("CellReplicated")
        /\ CounterGet(analyzer.overall_counts, "lineage_shifts") = KindTotal("LineageShift")
        /\ CounterGet(analyzer.overall_counts, "signals") = KindTotal("SignalEmitted")
        /\ \A l \in Lineages : CounterGet(analyzer.lineage_totals, l) = LineageTotal(l)
        /\ DOMAIN analyzer.lineage_totals \subseteq Lineages
        /\ AnalyzeAll(Reversed(analyzer.paths), analyzer.limit).overall_counts
               = analyzer.overall_counts
        /\ AnalyzeAll(Reversed(analyzer.paths), analyzer.limit).lineage_totals
               = analyzer.lineage_totals

\* Three files, two of them with shifts of lineage X in different numbers of
\* other events, merged in an order that is not its own reverse.
C24_Witness ==
    /\ pc = "analyzed"
    /\ Len(analyzer.paths) = 3
    /\ analyzer.paths[1] # analyzer.paths[3]
    /\ analyzer.limit = <<>>
    /\ CounterGet(analyzer.lineage_totals, "X") = 2
    /\ CounterGet(analyzer.lineage_totals, "Y") = 1
    /\ CounterGet(analyzer.overall_counts, "replications") = 2
    /\ CounterGet(analyzer.overall_counts, "signals") = 1

\* ------------------------------------------- properties of the chart spec
\* C25: when a chart spec is requested and any requested metric is not a
\* column of the rows, build_vega_spec fails with the configuration error, and
\* that error leaves main before any output file has been written.
C25_InvalidMetricFatalBeforeOutput ==
    /\ pc = "vega" =>
          \A metrics \in MetricChoices :
              metrics \ RowColumns # {} => build_vega_spec(rows, metrics) = "ValueError"
    /\ error.raised_by = "build_vega_spec" => outputs = {}

\* ------------------------------------------------- streams and timestamps
MaxStampedLines == 3

\* The lines of a telemetry file whose timestamps need not grow.
StampedLines ==
    {[type |-> "record", timestamp_ms |-> t, event |-> e] :
        t \in {50, 100},
        e \in {[kind |-> "CellReplicated"],
               [kind |-> "LineageShift", lineage |-> "X"],
               [kind |-> "StepSummary", step |-> 0, threat_score |-> 5, cell_count |-> 3],
               [kind |-> "StepSummary", step |-> 1, threat_score |-> 12, cell_count |-> 0]}}

ReadStampedLine == ReadLineFrom(StampedLines, MaxStampedLines)

NextStamps ==
    \/ OpenTelemetry
    \/ ReadStampedLine
    \/ EndOfFile
    \/ RowsOfTelemetry
    \/ DeriveAnnotations

SpecStamps == InitTwice /\ [][NextStamps]_vars

\* The stream with the same events in the same order, every timestamp 0.
Unstamped(f) == [i \in 1..Len(f) |-> [f[i] EXCEPT !.timestamp_ms = 0]]
Stamps(f) == [i \in 1..Len(f) |-> f[i].timestamp_ms]

\* C26: two telemetry streams with the same events in the same log order that
\* differ only in their timestamp_ms values, non-monotonic ones included,
\* yield the same per-step mapping, the same RunStats and the same
\* FitnessAnnotation: each stream yields what the stream with all timestamps
\* set to 0 yields.
C26_TimestampsNotUsed ==
    /\ pc \in {"telemetry_loaded", "rows_built", "annotated"}
          => per_step = load_telemetry_per_step(Unstamped(file)).per_step
    /\ pc = "rows_built"
          => stats = build_step_stats(load_telemetry_per_step(Unstamped(file)).per_step,
                                      EmptyDict)
    /\ pc = "annotated"
          => annotations =
                 derive_harness_annotations(
                     build_step_stats(load_telemetry_per_step(Unstamped(file)).per_step,
                                      EmptyDict))

\* A stream whose timestamps go down and up again, with an event stamped
\* earlier than the one before it counted in a step.
C26_Witness ==
    /\ pc = "annotated"
    /\ Stamps(file) = <<100, 50, 100>>
    /\ Kinds(file) = <<"LineageShift", "CellReplicated", "StepSummary">>
    /\ per_step[0].replications = 1
    /\ stats.total_lineage_shifts = 1
    /\ annotations.recommended_mutation # ""

\* ------------------------------------------------- streams and event kinds
MaxKindLines == 3

\* The lines of a telemetry file with events of kinds the loader has no
\* branch for, one of them a variant name the simulation does not emit.
OtherKinds == {"CellDied", "LinkAdded", "Scenario", "Mystery"}
KindLines ==
    {[type |-> "record", timestamp_ms |-> 100, event |-> e] :
        e \in {[kind |-> k] : k \in OtherKinds \cup {"CellReplicated"}}
              \cup {[kind |-> "SignalEmitted", topic |-> "alert"],
                    [kind |-> "LineageShift", lineage |-> "X"],
                    [kind |-> "StepSummary", step |-> 0, threat_score |-> 5, cell_count |-> 3],
                    [kind |-> "StepSummary", step |-> 1, threat_score |-> 12,
                     cell_count |-> 0]}}

ReadKindLine == ReadLineFrom(KindLines, MaxKindLines)

NextKinds ==
    \/ OpenTelemetry
    \/ ReadKindLine
    \/ EndOfFile

SpecKinds == InitTwice /\ [][NextKinds]_vars

KnownKinds == {"StepSummary", "CellReplicated", "SignalEmitted", "LineageShift"}
IsOtherKind(line) == line.type = "record" /\ line.event.kind \notin KnownKinds
KeepsLine(line) == ~IsOtherKind(line)
\* The stream without its events of other kinds.
WithoutOtherKinds(f) == SelectSeq(f, KeepsLine)

\* C27: events of a kind other than StepSummary, CellReplicated, SignalEmitted
\* and LineageShift never cause an error and never change a StepMetrics field:
\* the per-step mapping of a stream is that of the stream with all such events
\* removed.
C27_OtherKindsIgnored ==
    /\ error = NoError
    /\ pc # "raised"
    /\ pc = "telemetry_loaded"
          => per_step = load_telemetry_per_step(WithoutOtherKinds(file)).per_step

\* Events of two other kinds, one of them an unknown variant, in the window
\* of a step next to a counted event.
C27_Witness ==
    /\ pc = "telemetry_loaded"
    /\ Kinds(file) = <<"Mystery", "CellDied", "StepSummary">>
    /\ DOMAIN per_step = {1}
    /\ per_step[1].replications = 0

\* ------------------------------------------------ conservation of counts
\* The StepSummary events of the stream carry pairwise distinct steps.
DistinctSummarySteps(f) ==
    \A i, j \in SummaryIdx(f) : f[i].event.step = f[j].event.step => i = j
\* The events of a kind before the last StepSummary of the stream.
EventsBeforeLastSummary(f, kind) ==
    Cardinality({k \in 1..LastSummary(f) : f[k].type = "record" /\ f[k].event.kind = kind})
\* The per-step counts of the loader, summed over the steps.
PerStepReplications ==
    LET order == SortedKeys(DOMAIN per_step)
    IN SumOfSeq([n \in 1..Len(order) |-> per_step[order[n]].replications], 1)
PerStepSignals ==
    LET order == SortedKeys(DOMAIN per_step)
    IN SumOfSeq([n \in 1..Len(order) |-> _sum_values(per_step[order[n]].signals)], 1)
PerStepLineageShifts ==
    LET order == SortedKeys(DOMAIN per_step)
    IN SumOfSeq([n \in 1..Len(order) |-> _sum_values(per_step[order[n]].lineage_shifts)], 1)

\* C28: conservation of counts: for every stream whose StepSummary events carry
\* pairwise distinct step values, RunStats.total_replications, total_signals and
\* total_lineage_shifts equal the numbers of CellReplicated, SignalEmitted and
\* LineageShift events before the last StepSummary of the stream, and so do the
\* per-step counts summed over the steps: no such event is counted twice or in
\* two steps.
C28_CountsConserved ==
    (pc = "rows_built" /\ DistinctSummarySteps(file)) =>
        /\ stats.total_replications = EventsBeforeLastSummary(file, "CellReplicated")
        /\ stats.total_signals = EventsBeforeLastSummary(file, "SignalEmitted")
        /\ stats.total_lineage_shifts = EventsBeforeLastSummary(file, "LineageShift")
        /\ PerStepReplications = stats.total_replications
        /\ PerStepSignals = stats.total_signals
        /\ PerStepLineageShifts = stats.total_lineage_shifts

\* Two shifts of one lineage counted in the step that ends their window, and
\* another stream with a replication after the last StepSummary: here the
\* former.
C28_Witness ==
    /\ pc = "rows_built"
    /\ Kinds(file) = <<"LineageShift", "LineageShift", "StepSummary">>
    /\ file[1].event.lineage = file[2].event.lineage
    /\ stats.total_lineage_shifts = 2
    /\ stats.step_count = 1

\* ------------------------------------ generate_block_shuffled_control.py
\* Longest stimulus log given to the generator (number of lines).
MaxShuffleLines == 3
\* Largest block size given on the command line.
MaxBlockSize == 3
\* "step" is any JSON integer; with 3 a block of size 1 or 2 stays empty.
ShuffleSteps == {-1, 0, 1, 3}
ShuffleRecordLines ==
    {[type |-> "record", step |-> s, topic |-> t] : s \in ShuffleSteps, t \in StimTopics}
ShuffleLines == {BlankLine, CorruptLine} \cup ShuffleRecordLines
BlockSizes == 1..MaxBlockSize

\* main, lines 28-37: the records of lines[i..] grouped by step, in the order
\* read; a blank line and a line that raises inside the try are skipped.
RECURSIVE GroupFrom(_, _, _)
GroupFrom(steps, lines, i) ==
    IF i > Len(lines) THEN steps
    ELSE IF lines[i].type # "record" THEN GroupFrom(steps, lines, i + 1)
    ELSE GroupFrom(DictPut(steps, lines[i].step,
                           Append(DictGet(steps, lines[i].step, <<>>), lines[i])),
                   lines, i + 1)

\* main, lines 48-53: block_content for the steps s..stop-1 of the block that
\* starts at b_start, as (relative step, record) pairs.
RECURSIVE BlockContent(_, _, _, _)
BlockContent(steps, b_start, s, stop) ==
    IF s >= stop THEN <<>>
    ELSE (IF s \in DOMAIN steps
          THEN [n \in 1..Len(steps[s]) |-> [rel_step |-> s - b_start, rec |-> steps[s][n]]]
          ELSE <<>>)
         \o BlockContent(steps, b_start, s + 1, stop)

\* main, lines 46-55: the blocks for b_start in range(b_start, max_step + 1,
\* block_size); an empty block is left out.
RECURSIVE BlocksFrom(_, _, _, _)
BlocksFrom(steps, b_start, max_step, block_size) ==
    IF b_start >= max_step + 1 THEN <<>>
    ELSE LET block_content ==
                 BlockContent(steps, b_start, b_start,
                              Min2(b_start + block_size, max_step + 1))
         IN (IF block_content # <<>> THEN <<block_content>> ELSE <<>>)
            \o BlocksFrom(steps, b_start + block_size, max_step, block_size)

\* random.shuffle(blocks) can leave the blocks in any order.
Orders(n) == {p \in [1..n -> 1..n] : \A i, j \in 1..n : p[i] = p[j] => i = j}

\* main, lines 63-68: the records of blocks[i..] with their new global steps.
RECURSIVE ReassembleFrom(_, _, _, _)
ReassembleFrom(blocks, i, current_global_start, block_size) ==
    IF i > Len(blocks) THEN <<>>
    ELSE [n \in 1..Len(blocks[i]) |->
             [blocks[i][n].rec EXCEPT !.step = current_global_start + blocks[i][n].rel_step]]
         \o ReassembleFrom(blocks, i + 1, current_global_start + block_size, block_size)

\* list.sort(key=step): stable, the first record of the least step comes first.
RECURSIVE SortByStep(_)
SortByStep(records) ==
    IF records = <<>> THEN <<>>
    ELSE LET first == CHOOSE i \in 1..Len(records) :
                          /\ \A j \in 1..Len(records) : records[i].step <= records[j].step
                          /\ \A j \in 1..(i - 1) : records[j].step # records[i].step
         IN <<records[first]>>
            \o SortByStep([n \in 1..(Len(records) - 1) |->
                              IF n < first THEN records[n] ELSE records[n + 1]])

InitShuffle ==
    /\ pc = "group_records"
    /\ telemetry = "present"
    /\ file = <<>>
    /\ per_step = EmptyDict
    /\ buffer = <<>>
    /\ ordered_events = <<>>
    /\ stimulus = "unread"
    /\ stimuli = EmptyDict
    /\ rows = <<>>
    /\ outputs = {}
    /\ messages = <<>>
    /\ stim_file = <<>>
    /\ stats = <<>>
    /\ annotations = <<>>
    /\ first_run = <<>>
    /\ analyzer = <<>>
    /\ \E lines \in SeqsUpTo(ShuffleLines, MaxShuffleLines) :
       \E block_size \in BlockSizes :
          shuffler = [lines |-> lines, block_size |-> block_size, steps |-> EmptyDict,
                      blocks |-> <<>>, shuffled_records |-> <<>>, written |-> <<>>]
    /\ error = NoError

\* main, lines 25-41: the input is read; without a record the script exits.
GroupRecords ==
    /\ pc = "group_records"
    /\ shuffler' = [shuffler EXCEPT !.steps = GroupFrom(EmptyDict, shuffler.lines, 1)]
    /\ IF DOMAIN shuffler'.steps = {}
       THEN /\ messages' = Append(messages, "Error: No records found.")
            /\ error' = Raised("SystemExit", "main")
            /\ pc' = "exited"
       ELSE /\ pc' = "create_blocks"
            /\ UNCHANGED <<messages, error>>
    /\ UNCHANGED <<telemetry, file, per_step, buffer, ordered_events, stimulus, stimuli,
                   rows, outputs, stim_file, stats, annotations, first_run, analyzer>>

\* main, lines 43-55.
CreateBlocks ==
    /\ pc = "create_blocks"
    /\ shuffler' = [shuffler EXCEPT !.blocks =
                       BlocksFrom(shuffler.steps, 0, MaxOf(DOMAIN shuffler.steps),
                                  shuffler.block_size)]
    /\ pc' = "shuffle_blocks"
    /\ UNCHANGED <<telemetry, file, per_step, buffer, ordered_events, stimulus, stimuli,
                   rows, outputs, messages, stim_file, stats, annotations, first_run,
                   analyzer, error>>

\* main, line 58.
ShuffleBlocks ==
    /\ pc = "shuffle_blocks"
    /\ \E order \in Orders(Len(shuffler.blocks)) :
          shuffler' = [shuffler EXCEPT !.blocks =
                          [n \in 1..Len(shuffler.blocks) |-> shuffler.blocks[order[n]]]]
    /\ pc' = "reassemble"
    /\ UNCHANGED <<telemetry, file, per_step, buffer, ordered_events, stimulus, stimuli,
                   rows, outputs, messages, stim_file, stats, annotations, first_run,
                   analyzer, error>>

\* main, lines 61-68.
Reassemble ==
    /\ pc = "reassemble"
    /\ shuffler' = [shuffler EXCEPT !.shuffled_records =
                       ReassembleFrom(shuffler.blocks, 1, 0, shuffler.block_size)]
    /\ pc' = "sort_records"
    /\ UNCHANGED <<telemetry, file, per_step, buffer, ordered_events, stimulus, stimuli,
                   rows, outputs, messages, stim_file, stats, annotations, first_run,
                   analyzer, error>>

\* main, line 71.
SortRecords ==
    /\ pc = "sort_records"
    /\ shuffler' = [shuffler EXCEPT !.shuffled_records = SortByStep(@)]
    /\ pc' = "write_control"
    /\ UNCHANGED <<telemetry, file, per_step, buffer, ordered_events, stimulus, stimuli,
                   rows, outputs, messages, stim_file, stats, annotations, first_run,
                   analyzer, error>>

\* main, lines 73-77: the control log is written, one record per line.
WriteControl ==
    /\ pc = "write_control"
    /\ shuffler' = [shuffler EXCEPT !.written = <<shuffler.shuffled_records>>]
    /\ outputs' = outputs \cup {"control"}
    /\ messages' = Append(messages, "Wrote records in blocks")
    /\ pc' = "control_written"
    /\ UNCHANGED <<telemetry, file, per_step, buffer, ordered_events, stimulus, stimuli,
                   rows, stim_file, stats, annotations, first_run, analyzer, error>>

NextShuffle ==
    \/ GroupRecords
    \/ CreateBlocks
    \/ ShuffleBlocks
    \/ Reassemble
    \/ SortRecords
    \/ WriteControl

SpecShuffle == InitShuffle /\ [][NextShuffle]_vars

IsParsedRecord(line) == line.type = "record"
\* The records of the input log, in the order read.
ParsedRecords == SelectSeq(shuffler.lines, IsParsedRecord)
\* The control log written.
ControlLog == shuffler.written[1]
\* Two steps of the input lie in the same block of block_size steps.
SameInputBlock(s, t, block_size) == s \div block_size = t \div block_size
\* out holds each record of inp once, with only its step changed and with the
\* step differences inside an input block kept.
OnlyStepsChanged(inp, out, block_size) ==
    /\ Len(out) = Len(inp)
    /\ \E place \in Orders(Len(inp)) :
          /\ \A i \in 1..Len(inp) :
                [out[place[i]] EXCEPT !.step = inp[i].step] = inp[i]
          /\ \A i, j \in 1..Len(inp) :
                SameInputBlock(inp[i].step, inp[j].step, block_size)
                    => out[place[i]].step - out[place[j]].step = inp[i].step - inp[j].step
SortedByStep(out) == \A i, j \in 1..Len(out) : i < j => out[i].step <= out[j].step

\* C30: the block-shuffled control generator only reorders blocks: for every
\* input stimulus log, every shuffle outcome and every positive block size, the
\* output contains each parsed input record exactly once with only its step
\* changed, two records of the same input block keep the same difference between
\* their steps, and the output is sorted by non-decreasing step.
C30_OnlyBlocksReordered ==
    pc = "control_written" =>
        /\ OnlyStepsChanged(ParsedRecords, ControlLog, shuffler.block_size)
        /\ SortedByStep(ControlLog)

=============================================================================
